---- MODULE Spec2Model ----
(***************************************************************************)
(* Orchestrator and stage runtimes of the confidential ML pipeline.        *)
(*                                                                         *)
(* One orchestrator drives num_stages stage runtimes.  Every stage has a   *)
(* control channel (two FIFO directions) and the data plane is a chain of  *)
(* FIFO links: data[0] is the orchestrator's data-in to stage 0, data[i]   *)
(* is stage i-1's data-out / stage i's data-in, data[num_stages] is the    *)
(* last stage's data-out read by the orchestrator.  A relay between two    *)
(* stages copies bytes in order, so a relayed link is one FIFO too.        *)
(*                                                                         *)
(* Every await of the code (one message sent or received, one forward) is  *)
(* one step, so a timeout or a control message can fall between any two.   *)
(***************************************************************************)
EXTENDS Integers, Sequences, FiniteSets, TLC

\* ------------------------------------------------------------- bounds
MaxStages == 2
MaxCalls == 2
MaxMB == 2
MaxTensors == 1
MaxPeerCtl == 3
MaxPeerData == 3
MaxShutdowns == 2
MaxSetupStages == 3
MaxSchedStages == 4
MaxSchedMB == 4
MaxManifestStages == 3
MaxLayer == 3
MaxRelayBytes == 3
MaxRetries == 6

\* activation_spec.max_seq_len of the manifests the tests build
max_seq_len == 16

\* seq_len values a caller passes: one accepted, one exceeding max_seq_len
SeqLens == {max_seq_len, max_seq_len + 1}

VARIABLES
    num_stages,   \* manifest.stages.len(), fixed at construction
    executor,     \* executor[s]: "identity" or "flaky" (forward may fail)
    weights,      \* weights[s]: the hashes the manifest declares for stage s, the
                  \*   hashes its executor returns, whether executor.init succeeds
    ctlDown,      \* ctlDown[s]: control messages orchestrator -> stage s
    ctlUp,        \* ctlUp[s]: control messages stage s -> orchestrator
    data,         \* data[i]: the data-plane links, see above
    stage,        \* stage[s]: the state of stage s's run_data_phase
    orch,         \* the orchestrator and its caller
    clock,        \* SystemTime::now() in nanoseconds, read by rand_request_id
    calls,        \* number of infer / health_check calls made so far
    log,          \* one entry per finished call of the orchestrator's caller
    hist,         \* history of each stage: what it wrote for which request
    peer,         \* the open peer of PeerSpec: which stage it drives, what it sent
    dataBack,     \* dataBack[i]: the reverse direction of data link i (handshake replies)
    schedule,     \* a call of InferenceSchedule::generate and the walk over its result
    manifest,     \* a ShardManifest and what validate / Orchestrator::new made of it
    relay,        \* a relay link: per direction the bytes written, in the copy, delivered
    tcp,          \* a call of connect_tcp_retry
    capacity      \* the number of messages a data link holds before a write to it blocks

\* What no step of a pipeline changes: the state of the library functions that
\* stand apart from a running pipeline, and the capacity of its data links.
libVars == <<schedule, manifest, relay, tcp, capacity>>

vars == <<libVars, dataBack, num_stages, executor, weights, ctlDown, ctlUp, data, stage, orch, clock,
          calls, log, hist, peer>>

Stages == 0 .. (num_stages - 1)

\* ------------------------------------------------------------- messages
\* OrchestratorMsg (protocol.rs).  One record shape for all variants.
OMsg(t, id, m, sl, r) == [type |-> t, id |-> id, m |-> m, seq_len |-> sl, reason |-> r]
StartRequest(request_id, num_micro_batches, seq_len) ==
    OMsg("StartRequest", request_id, num_micro_batches, seq_len, "")
AbortRequest(request_id, reason) == OMsg("AbortRequest", request_id, 0, 0, reason)
Ping(seq) == OMsg("Ping", seq, 0, 0, "")
ShutdownMsg == OMsg("Shutdown", 0, 0, 0, "")
\* Init carries the stage's StageSpec of the manifest (see weights) and num_stages.
InitMsg == OMsg("Init", 0, 0, 0, "")
EstablishDataChannels == OMsg("EstablishDataChannels", 0, 0, 0, "")

\* StageMsg (protocol.rs).  An error text is the sequence of its parts, as the
\* format strings of error.rs and stage.rs put them together.
SMsg(t, id, e) == [type |-> t, id |-> id, error |-> e]
Ready(stage_idx) == SMsg("Ready", stage_idx, <<>>)
DataChannelsReady(stage_idx) == SMsg("DataChannelsReady", stage_idx, <<>>)
RequestDone(request_id) == SMsg("RequestDone", request_id, <<>>)
RequestError(request_id, error) == SMsg("RequestError", request_id, error)
Pong(seq) == SMsg("Pong", seq, <<>>)
ShuttingDown(stage_idx) == SMsg("ShuttingDown", stage_idx, <<>>)

\* The texts e.to_string() gives for the errors a request can end with.
SeqLenText == <<"seq_len exceeds max_seq_len">>
SchedulerText == <<"scheduler error: ", "zero micro-batches">>
UpstreamText == <<"stage failed: ", "upstream stage reported error">>
ForwardText == <<"stage error: ", "forward pass failed">>
AbortedText(reason) == <<"request failed: ", "aborted: ", reason>>

\* The text holds the part w.
Contains(text, w) == \E j \in 1 .. Len(text) : text[j] = w

\* Data-plane messages: a tensor (identified by its name), END, ERR.
Tensor(name) == [k |-> "T", name |-> name]
END == [k |-> "END", name |-> 0]
ERROR_SENTINEL == [k |-> "ERR", name |-> 0]

\* The frames of the secure channel's handshake: Hello of the initiator, Hello
\* of the responder, Hello of the initiator again (its confirmation), as they
\* travel on a data link and on the two directions of a control channel.
HelloData == [k |-> "HELLO", name |-> 0]
HelloDown == OMsg("Hello", 0, 0, 0, "")
HelloUp == SMsg("Hello", 0, <<>>)

\* ------------------------------------------------------------- scheduler
\* The ops of stage s at time step t (the closure body of generate).
StepOps_dropLast(p, m, s, t) ==
    IF t >= s /\ (t - s) < m - 1
    THEN (IF s # 0 THEN <<[op |-> "RecvActivation", micro_batch |-> t - s]>> ELSE <<>>)
         \o <<[op |-> "Forward", micro_batch |-> t - s]>>
         \o (IF s # p - 1 THEN <<[op |-> "SendActivation", micro_batch |-> t - s]>> ELSE <<>>)
    ELSE <<[op |-> "Idle", micro_batch |-> 0]>>

StepOps_recvOnFirst(p, m, s, t) ==
    IF t >= s /\ (t - s) < m
    THEN <<[op |-> "RecvActivation", micro_batch |-> t - s]>>
         \o <<[op |-> "Forward", micro_batch |-> t - s]>>
         \o (IF s # p - 1 THEN <<[op |-> "SendActivation", micro_batch |-> t - s]>> ELSE <<>>)
    ELSE <<[op |-> "Idle", micro_batch |-> 0]>>

StepOps(p, m, s, t) ==
    IF t >= s /\ (t - s) < m
    THEN (IF s # 0 THEN <<[op |-> "RecvActivation", micro_batch |-> t - s]>> ELSE <<>>)
         \o <<[op |-> "Forward", micro_batch |-> t - s]>>
         \o (IF s # p - 1 THEN <<[op |-> "SendActivation", micro_batch |-> t - s]>> ELSE <<>>)
    ELSE <<[op |-> "Idle", micro_batch |-> 0]>>

Generate_shortSteps(p, m) ==
    IF p = 0 THEN [err |-> "ZeroStages", total_steps |-> 0, stage_schedules |-> <<>>]
    ELSE IF m = 0 THEN [err |-> "ZeroMicroBatches", total_steps |-> 0, stage_schedules |-> <<>>]
    ELSE [err |-> "none",
          total_steps |-> m + p - 1,
          stage_schedules |->
              [s \in 0 .. (p - 1) |-> [i \in 1 .. (m + p - 2) |-> StepOps(p, m, s, i - 1)]]]

Generate_microBatchesFirst(p, m) ==
    IF m = 0 THEN [err |-> "ZeroMicroBatches", total_steps |-> 0, stage_schedules |-> <<>>]
    ELSE IF p = 0 THEN [err |-> "ZeroStages", total_steps |-> 0, stage_schedules |-> <<>>]
    ELSE [err |-> "none",
          total_steps |-> m + p - 1,
          stage_schedules |->
              [s \in 0 .. (p - 1) |-> [i \in 1 .. (m + p - 1) |-> StepOps(p, m, s, i - 1)]]]

\* InferenceSchedule::generate: an error, or total_steps and one op list per
\* stage and step (step t is element t + 1 of the sequence).
Generate(p, m) ==
    IF p = 0 THEN [err |-> "ZeroStages", total_steps |-> 0, stage_schedules |-> <<>>]
    ELSE IF m = 0 THEN [err |-> "ZeroMicroBatches", total_steps |-> 0, stage_schedules |-> <<>>]
    ELSE [err |-> "none",
          total_steps |-> m + p - 1,
          stage_schedules |->
              [s \in 0 .. (p - 1) |-> [i \in 1 .. (m + p - 1) |-> StepOps(p, m, s, i - 1)]]]

RECURSIVE FlattenSeqs(_)
FlattenSeqs(ss) == IF ss = <<>> THEN <<>> ELSE Head(ss) \o FlattenSeqs(Tail(ss))

\* The ops of stage s in the order process_request's two nested loops visit them.
StageOps(p, m, s) == FlattenSeqs(Generate(p, m).stage_schedules[s])

\* RecvActivation, SendActivation and Idle are empty match arms: from position
\* pos the loops run on, without awaiting, to the next Forward (or past the end).
RECURSIVE NextForward(_, _)
NextForward(ops, pos) ==
    IF pos > Len(ops) THEN pos
    ELSE IF ops[pos].op = "Forward" THEN pos
    ELSE NextForward(ops, pos + 1)

\* ------------------------------------------------------------- stage state
\* pc: where run stands.
\*   "ctl_accept"  accept of the control channel awaits Hello   (117)
\*   "ctl_confirm" accept of the control channel awaits the confirmation
\*   "init_wait"   handle_init awaits Init                      (278)
\*   "exec_init"   executor.init, then the weight hash check    (136)
\*   "send_ready"  Ready not yet sent                           (179)
\*   "wait_edc"    wait_for_establish_data_channels             (304)
\*   "accept_in"   accept of data-in awaits Hello               (237)
\*   "accept_confirm" accept of data-in awaits the confirmation
\*   "connect_out" connect of data-out, Hello not yet sent      (247)
\*   "connect_reply" connect of data-out awaits the responder's Hello
\*   "data_ready"  data channels up, DataChannelsReady not yet sent (257)
\*   "loop"        process_loop awaits a control message (stage.rs:338)
\*   "reject_err"  seq_len rejected, ERR not yet sent           (352)
\*   "reject_rep"  seq_len rejected, RequestError not yet sent  (353)
\*   "run"         select! over process_fut and recv_control    (390)
\*   "report_done" result Ok, RequestDone not yet sent          (449)
\*   "fail_err"    result Err, ERR not yet sent                 (456)
\*   "fail_rep"    result Err, RequestError not yet sent        (460)
\*   "exited"      run returned Ok(())
\*   "crashed"     run returned Err
\* ph: where process_fut stands while pc = "run": "recv" (recv_tensors),
\*   "fwd" (executor.forward), "send" (send_tensors).
IdleStage ==
    [pc |-> "loop", request_id |-> 0, num_micro_batches |-> 0, ops |-> <<>>,
     pos |-> 0, ph |-> "none", inputs |-> <<>>, out |-> <<>>, err |-> <<>>]

\* What a stage has done for the request it was started on last: every message
\* it wrote to data-out for it and every forward call it made for it.
\* ev: its reads of data-in (<<"read", kind of message>>), forward calls and
\* writes to data-out for that request, in their order.
\* setup: the steps of its set-up the stage has taken, in their order.
NoHist == [request_id |-> 0, outLog |-> <<>>, fwd |-> <<>>, ev |-> <<>>, setup |-> <<>>]

\* The history of a stage that is met in its process loop.
SetUpHist ==
    [NoHist EXCEPT !.setup = <<"EstablishDataChannels", "data_in", "data_out",
                               "DataChannelsReady">>]

Append2(f, i, x) == [f EXCEPT ![i] = Append(@, x)]
Pop(f, i) == [f EXCEPT ![i] = Tail(@)]

\* ------------------------------------------------------------- orchestrator state
\* pc: "idle" (no call in progress), "start", "push", "recv", "collect_ok",
\*   "collect_err" (infer_inner), "hc_send", "hc_recv" (health_check_inner),
\*   "sd_send", "sd_recv" (shutdown), "closed" (shutdown returned).
IdleOrch ==
    [pc |-> "idle", request_id |-> 0, num_micro_batches |-> 0, seq_len |-> 0,
     input |-> <<>>, pushq |-> <<>>, idx |-> 0, outputs |-> <<>>, cur |-> <<>>,
     settled |-> FALSE, relays |-> "running"]

\* A stage whose control channel is established and that awaits Init.
NewStage == [IdleStage EXCEPT !.pc = "init_wait"]

\* A stage whose manifest declares no weight hashes and whose executor loads.
Loaded == [declared |-> <<>>, actual |-> <<>>, init_ok |-> TRUE]

\* Declared hashes, the executor's hashes, the outcome of executor.init: no
\* hashes declared, init failing, hashes equal, fewer hashes than declared,
\* another hash, another hash at the second place.
WeightCases ==
    {Loaded,
     [declared |-> <<>>, actual |-> <<1>>, init_ok |-> TRUE],
     [declared |-> <<1>>, actual |-> <<1>>, init_ok |-> FALSE],
     [declared |-> <<1>>, actual |-> <<1>>, init_ok |-> TRUE],
     [declared |-> <<1>>, actual |-> <<>>, init_ok |-> TRUE],
     [declared |-> <<1>>, actual |-> <<2>>, init_ok |-> TRUE],
     [declared |-> <<1, 2>>, actual |-> <<1, 1>>, init_ok |-> TRUE],
     [declared |-> <<1, 2>>, actual |-> <<1, 2>>, init_ok |-> TRUE]}

\* ------------------------------------------------------------- library state
\* No call of generate, no manifest, no relay link, no connect_tcp_retry under
\* way: the state of libVars while a pipeline runs.
\* pc of a schedule: "none" (generate not called), "generated", "walk" (a caller
\* iterates over the steps of stage stage_idx), "walked" (past the last step).
NoSchedule ==
    [num_stages |-> 0, num_micro_batches |-> 0, stage_idx |-> 0, pc |-> "none",
     result |-> [err |-> "none", total_steps |-> 0, stage_schedules |-> <<>>],
     step |-> 0, forwards |-> <<>>]

\* A manifest (total_layers, stages), the result of validate and the result of
\* Orchestrator::new on it: "none" while not called.
NoManifest == [total_layers |-> 0, stages |-> <<>>, result |-> "none", orchestrator |-> "none"]

\* One direction of a relay link: every byte the writer has written, the bytes
\* waiting in the source transport, the bytes held by the copy, the bytes the
\* reader can observe, whether the writer has closed, whether the copy returned.
NoCopy ==
    [written |-> <<>>, src |-> <<>>, buf |-> <<>>, dst |-> <<>>, eof |-> FALSE, done |-> FALSE]

NoRelay == [u2d |-> NoCopy, d2u |-> NoCopy, aborted |-> FALSE]

\* A call of connect_tcp_retry: the policy's max_retries, whether a listener is
\* bound to the address, where the call is ("none", "connect", "sleep", "ok",
\* "err"), the loop variable, the calls of TcpStream::connect made so far and
\* how many of them failed, the attempts the error message reports.
NoTcp ==
    [max_retries |-> 0, listening |-> FALSE, pc |-> "none", attempt |-> 0, connects |-> 0,
     failed |-> 0, reported |-> 0]

LibIdle == schedule = NoSchedule /\ manifest = NoManifest /\ relay = NoRelay /\ tcp = NoTcp

\* The transports of the tests (tokio::io::duplex(65536), loopback TCP) hold more
\* than the runs of Spec, PeerSpec and SetupSpec ever have in flight on a link.
Ample == 1000

\* Data link i has room for one more message.
Room(i) == Len(data[i]) < capacity

\* ------------------------------------------------------------- initial state
\* The pipeline after init, send_establish_data_channels and
\* complete_data_channels returned Ok: every stage is in its process loop, every
\* channel is established and empty.
Init ==
    /\ LibIdle
    /\ capacity = Ample
    /\ num_stages \in 1 .. MaxStages
    /\ dataBack = [i \in 0 .. num_stages |-> <<>>]
    /\ executor \in [0 .. (num_stages - 1) -> {"identity", "flaky"}]
    /\ weights = [s \in 0 .. (num_stages - 1) |-> Loaded]
    /\ ctlDown = [s \in 0 .. (num_stages - 1) |-> <<>>]
    /\ ctlUp = [s \in 0 .. (num_stages - 1) |-> <<>>]
    /\ data = [i \in 0 .. num_stages |-> <<>>]
    /\ stage = [s \in 0 .. (num_stages - 1) |-> IdleStage]
    /\ orch = IdleOrch
    /\ clock = 1
    /\ calls = 0
    /\ log = <<>>
    /\ hist = [s \in 0 .. (num_stages - 1) |-> SetUpHist]
    /\ peer = [focus |-> 0, ctl |-> 0, data |-> 0]

\* ------------------------------------------------------------- stage: run_control_phase
\* The weight hash check: skipped when the manifest declares none, else the
\* counts must agree and then every pair of the zipped lists.
VerifyWeightHashes_countOnly(expected, actual) ==
    IF expected = <<>> THEN "skipped"
    ELSE IF Len(actual) # Len(expected) THEN "count mismatch"
    ELSE "verified"

VerifyWeightHashes(expected, actual) ==
    IF expected = <<>> THEN "skipped"
    ELSE IF Len(actual) # Len(expected) THEN "count mismatch"
    ELSE IF \E i \in 1 .. Len(expected) : expected[i] # actual[i] THEN "hash mismatch"
    ELSE "verified"

\* run returns the error e: nothing more is sent.
Crashed(e) == [IdleStage EXCEPT !.pc = "crashed", !.err = e]

\* accept_with_attestation on the control channel: the orchestrator's Hello is
\* answered, its confirmation awaited.
StageAcceptControl(s) ==
    /\ stage[s].pc = "ctl_accept"
    /\ ctlDown[s] # <<>>
    /\ ctlDown' = Pop(ctlDown, s)
    /\ IF Head(ctlDown[s]) = HelloDown
       THEN /\ ctlUp' = Append2(ctlUp, s, HelloUp)
            /\ stage' = [stage EXCEPT ![s].pc = "ctl_confirm"]
       ELSE /\ ctlUp' = ctlUp
            /\ stage' = [stage EXCEPT ![s] = Crashed(<<"transport error: ", "handshake">>)]
    /\ UNCHANGED <<libVars, dataBack, num_stages, executor, weights, data, orch, clock, calls, log, hist, peer>>

StageControlConfirm(s) ==
    /\ stage[s].pc = "ctl_confirm"
    /\ ctlDown[s] # <<>>
    /\ ctlDown' = Pop(ctlDown, s)
    /\ stage' = [stage EXCEPT ![s] =
                    IF Head(ctlDown[s]) = HelloDown
                    THEN [@ EXCEPT !.pc = "init_wait"]
                    ELSE Crashed(<<"transport error: ", "handshake">>)]
    /\ UNCHANGED <<libVars, dataBack, num_stages, executor, weights, ctlUp, data, orch, clock, calls, log, hist, peer>>

\* handle_init: the first control message must be Init.
StageHandleInit(s) ==
    /\ stage[s].pc = "init_wait"
    /\ ctlDown[s] # <<>>
    /\ stage' = [stage EXCEPT ![s] =
                    IF Head(ctlDown[s]).type = "Init"
                    THEN [@ EXCEPT !.pc = "exec_init"]
                    ELSE Crashed(<<"protocol error: ", "expected Init">>)]
    /\ ctlDown' = Pop(ctlDown, s)
    /\ UNCHANGED <<libVars, dataBack, num_stages, executor, weights, ctlUp, data, orch, clock, calls, log, hist, peer>>

\* executor.init(&stage_spec), then the weight hashes of the manifest against
\* executor.weight_hashes().
StageExecutorInit(s) ==
    /\ stage[s].pc = "exec_init"
    /\ LET w == weights[s]
           v == VerifyWeightHashes(w.declared, w.actual)
       IN  stage' = [stage EXCEPT ![s] =
                        IF ~w.init_ok
                        THEN Crashed(<<"stage error: ", "executor init failed">>)
                        ELSE IF v \in {"count mismatch", "hash mismatch"}
                        THEN Crashed(<<"stage failed: ", v>>)
                        ELSE [@ EXCEPT !.pc = "send_ready"]]
    /\ UNCHANGED <<libVars, dataBack, num_stages, executor, weights, ctlDown, ctlUp, data, orch, clock, calls, log, hist, peer>>

StageSendReady(s) ==
    /\ stage[s].pc = "send_ready"
    /\ ctlUp' = Append2(ctlUp, s, Ready(s))
    /\ stage' = [stage EXCEPT ![s].pc = "wait_edc"]
    /\ UNCHANGED <<libVars, dataBack, num_stages, executor, weights, ctlDown, data, orch, clock, calls, log, hist, peer>>

StageWaitEstablish_lenient(s) ==
    /\ stage[s].pc = "wait_edc"
    /\ ctlDown[s] # <<>>
    /\ Head(ctlDown[s]).type # "Ping"
    /\ IF Head(ctlDown[s]).type = "EstablishDataChannels"
       THEN /\ stage' = [stage EXCEPT ![s].pc = "accept_in"]
            /\ hist' = [hist EXCEPT ![s].setup = Append(@, "EstablishDataChannels")]
       ELSE /\ stage' = stage
            /\ hist' = hist
    /\ ctlDown' = Pop(ctlDown, s)
    /\ UNCHANGED <<libVars, dataBack, num_stages, executor, weights, ctlUp, data, orch, clock, calls, log, peer>>

\* wait_for_establish_data_channels: Ping is answered, anything else than
\* EstablishDataChannels ends run with a protocol error.
StageWaitEstablish(s) ==
    /\ stage[s].pc = "wait_edc"
    /\ ctlDown[s] # <<>>
    /\ Head(ctlDown[s]).type # "Ping"
    /\ IF Head(ctlDown[s]).type = "EstablishDataChannels"
       THEN /\ stage' = [stage EXCEPT ![s].pc = "accept_in"]
            /\ hist' = [hist EXCEPT ![s].setup = Append(@, "EstablishDataChannels")]
       ELSE /\ stage' = [stage EXCEPT ![s] =
                            Crashed(<<"protocol error: ", "expected EstablishDataChannels">>)]
            /\ hist' = hist
    /\ ctlDown' = Pop(ctlDown, s)
    /\ UNCHANGED <<libVars, dataBack, num_stages, executor, weights, ctlUp, data, orch, clock, calls, log, peer>>

StageWaitPing(s) ==
    /\ stage[s].pc = "wait_edc"
    /\ ctlDown[s] # <<>>
    /\ Head(ctlDown[s]).type = "Ping"
    /\ ctlUp' = Append2(ctlUp, s, Pong(Head(ctlDown[s]).id))
    /\ ctlDown' = Pop(ctlDown, s)
    /\ UNCHANGED <<libVars, dataBack, num_stages, executor, weights, data, stage, orch, clock, calls, log, hist, peer>>

\* ------------------------------------------------------------- stage: run_data_phase
\* accept_with_attestation on data-in: the initiator's Hello is answered.  A
\* frame that is no Hello fails the handshake and run returns the error.
StageAcceptDataIn(s) ==
    /\ stage[s].pc = "accept_in"
    /\ data[s] # <<>>
    /\ data' = Pop(data, s)
    /\ IF Head(data[s]) = HelloData
       THEN /\ dataBack' = Append2(dataBack, s, HelloData)
            /\ stage' = [stage EXCEPT ![s].pc = "accept_confirm"]
       ELSE /\ dataBack' = dataBack
            /\ stage' = [stage EXCEPT ![s] = Crashed(<<"transport error: ", "handshake">>)]
    /\ UNCHANGED <<libVars, num_stages, executor, weights, ctlDown, ctlUp, orch, clock, calls, log, hist, peer>>

StageDataInConfirm_readyAtOnce(s) ==
    /\ stage[s].pc = "accept_confirm"
    /\ data[s] # <<>>
    /\ data' = Pop(data, s)
    /\ IF Head(data[s]) = HelloData
       THEN /\ stage' = [stage EXCEPT ![s].pc = "data_ready"]
            /\ hist' = [hist EXCEPT ![s].setup = Append(@, "data_in")]
       ELSE /\ stage' = [stage EXCEPT ![s] = Crashed(<<"transport error: ", "handshake">>)]
            /\ hist' = hist
    /\ UNCHANGED <<libVars, dataBack, num_stages, executor, weights, ctlDown, ctlUp, orch, clock, calls, log, peer>>

\* The initiator's confirmation arrives: data-in is established.
StageDataInConfirm(s) ==
    /\ stage[s].pc = "accept_confirm"
    /\ data[s] # <<>>
    /\ data' = Pop(data, s)
    /\ IF Head(data[s]) = HelloData
       THEN /\ stage' = [stage EXCEPT ![s].pc = "connect_out"]
            /\ hist' = [hist EXCEPT ![s].setup = Append(@, "data_in")]
       ELSE /\ stage' = [stage EXCEPT ![s] = Crashed(<<"transport error: ", "handshake">>)]
            /\ hist' = hist
    /\ UNCHANGED <<libVars, dataBack, num_stages, executor, weights, ctlDown, ctlUp, orch, clock, calls, log, peer>>

\* connect_with_attestation on data-out: Hello is sent ...
StageConnectDataOut(s) ==
    /\ stage[s].pc = "connect_out"
    /\ data' = Append2(data, s + 1, HelloData)
    /\ stage' = [stage EXCEPT ![s].pc = "connect_reply"]
    /\ UNCHANGED <<libVars, dataBack, num_stages, executor, weights, ctlDown, ctlUp, orch, clock, calls, log, hist, peer>>

\* ... and the responder's Hello is confirmed: data-out is established.
StageDataOutReply(s) ==
    /\ stage[s].pc = "connect_reply"
    /\ dataBack[s + 1] # <<>>
    /\ dataBack' = Pop(dataBack, s + 1)
    /\ data' = Append2(data, s + 1, HelloData)
    /\ stage' = [stage EXCEPT ![s].pc = "data_ready"]
    /\ hist' = [hist EXCEPT ![s].setup = Append(@, "data_out")]
    /\ UNCHANGED <<libVars, num_stages, executor, weights, ctlDown, ctlUp, orch, clock, calls, log, peer>>

\* DataChannelsReady is sent and the process loop entered.
StageDataChannelsReady(s) ==
    /\ stage[s].pc = "data_ready"
    /\ ctlUp' = Append2(ctlUp, s, DataChannelsReady(s))
    /\ stage' = [stage EXCEPT ![s].pc = "loop"]
    /\ hist' = [hist EXCEPT ![s].setup = Append(@, "DataChannelsReady")]
    /\ UNCHANGED <<libVars, dataBack, num_stages, executor, weights, ctlDown, data, orch, clock, calls, log, peer>>

\* ------------------------------------------------------------- stage: process_loop
\* The Err arm of `match result`: the request failed with error e; the stage
\* goes on to send ERR on data-out and then RequestError.
Failed_noSentinel(st, e) ==
    [st EXCEPT !.pc = "fail_rep", !.err = e, !.ph = "none", !.inputs = <<>>, !.out = <<>>]

Failed(st, e) ==
    [st EXCEPT !.pc = "fail_err", !.err = e, !.ph = "none", !.inputs = <<>>, !.out = <<>>]

\* process_request after an op list position was left behind: past the last op
\* it returns Ok(()), otherwise it awaits recv_tensors for the next Forward.
AfterOps(st) ==
    IF st.pos > Len(st.ops)
    THEN [st EXCEPT !.pc = "report_done", !.ph = "none"]
    ELSE [st EXCEPT !.ph = "recv"]

\* A StartRequest taken in the idle loop, seq_len within max_seq_len: the
\* select! loop starts over a fresh process_request future.
Started(s, msg) ==
    LET sched == Generate(num_stages, msg.m)
        ops == IF sched.err = "none" THEN StageOps(num_stages, msg.m, s) ELSE <<>>
        st == [IdleStage EXCEPT !.pc = "run", !.request_id = msg.id,
                                !.num_micro_batches = msg.m, !.ops = ops,
                                !.pos = NextForward(ops, 1)]
    IN  IF sched.err # "none" THEN [st EXCEPT !.ph = "sched"] ELSE AfterOps(st)

\* A StartRequest whose seq_len exceeds max_seq_len.
Rejected(msg) ==
    [IdleStage EXCEPT !.pc = "reject_err", !.request_id = msg.id,
                      !.num_micro_batches = msg.m, !.err = SeqLenText]

StageStartRequest_noSeqLenCheck(s) ==
    /\ stage[s].pc = "loop"
    /\ ctlDown[s] # <<>>
    /\ Head(ctlDown[s]).type = "StartRequest"
    /\ LET msg == Head(ctlDown[s]) IN
       /\ stage' = [stage EXCEPT ![s] = Started(s, msg)]
       /\ hist' = [hist EXCEPT ![s] = [@ EXCEPT !.request_id = msg.id,
                                                !.outLog = <<>>, !.fwd = <<>>, !.ev = <<>>]]
    /\ ctlDown' = Pop(ctlDown, s)
    /\ UNCHANGED <<libVars, dataBack, num_stages, executor, weights, ctlUp, data, orch, clock, calls, log, peer>>

StageStartRequest(s) ==
    /\ stage[s].pc = "loop"
    /\ ctlDown[s] # <<>>
    /\ Head(ctlDown[s]).type = "StartRequest"
    /\ LET msg == Head(ctlDown[s]) IN
       /\ stage' = [stage EXCEPT ![s] =
                        IF msg.seq_len > max_seq_len THEN Rejected(msg) ELSE Started(s, msg)]
       /\ hist' = [hist EXCEPT ![s] = [@ EXCEPT !.request_id = msg.id,
                                                !.outLog = <<>>, !.fwd = <<>>, !.ev = <<>>]]
    /\ ctlDown' = Pop(ctlDown, s)
    /\ UNCHANGED <<libVars, dataBack, num_stages, executor, weights, ctlUp, data, orch, clock, calls, log, peer>>

StageRejectErr(s) ==
    /\ stage[s].pc = "reject_err"
    /\ Room(s + 1)
    /\ data' = Append2(data, s + 1, ERROR_SENTINEL)
    /\ stage' = [stage EXCEPT ![s].pc = "reject_rep"]
    /\ hist' = [hist EXCEPT ![s].outLog = Append(@, ERROR_SENTINEL)]
    /\ UNCHANGED <<libVars, dataBack, num_stages, executor, weights, ctlDown, ctlUp, orch, clock, calls, log, peer>>

StageRejectReport(s) ==
    /\ stage[s].pc = "reject_rep"
    /\ ctlUp' = Append2(ctlUp, s, RequestError(stage[s].request_id, stage[s].err))
    /\ stage' = [stage EXCEPT ![s] = IdleStage]
    /\ UNCHANGED <<libVars, dataBack, num_stages, executor, weights, ctlDown, data, orch, clock, calls, log, hist, peer>>

\* AbortRequest outside of a request: logged, nothing else.
StageIdleAbort_reply(s) ==
    /\ stage[s].pc = "loop"
    /\ ctlDown[s] # <<>>
    /\ Head(ctlDown[s]).type = "AbortRequest"
    /\ ctlUp' = Append2(ctlUp, s, RequestError(Head(ctlDown[s]).id,
                                               AbortedText(Head(ctlDown[s]).reason)))
    /\ ctlDown' = Pop(ctlDown, s)
    /\ UNCHANGED <<libVars, dataBack, num_stages, executor, weights, data, stage, orch, clock, calls, log, hist, peer>>

StageIdleAbort(s) ==
    /\ stage[s].pc = "loop"
    /\ ctlDown[s] # <<>>
    /\ Head(ctlDown[s]).type = "AbortRequest"
    /\ ctlDown' = Pop(ctlDown, s)
    /\ UNCHANGED <<libVars, dataBack, num_stages, executor, weights, ctlUp, data, stage, orch, clock, calls, log, hist, peer>>

StageIdlePing(s) ==
    /\ stage[s].pc = "loop"
    /\ ctlDown[s] # <<>>
    /\ Head(ctlDown[s]).type = "Ping"
    /\ ctlUp' = Append2(ctlUp, s, Pong(Head(ctlDown[s]).id))
    /\ ctlDown' = Pop(ctlDown, s)
    /\ UNCHANGED <<libVars, dataBack, num_stages, executor, weights, data, stage, orch, clock, calls, log, hist, peer>>

StageIdleShutdown_stageZero(s) ==
    /\ stage[s].pc = "loop"
    /\ ctlDown[s] # <<>>
    /\ Head(ctlDown[s]).type = "Shutdown"
    /\ ctlUp' = Append2(ctlUp, s, ShuttingDown(0))
    /\ ctlDown' = Pop(ctlDown, s)
    /\ stage' = [stage EXCEPT ![s] = [IdleStage EXCEPT !.pc = "exited"]]
    /\ UNCHANGED <<libVars, dataBack, num_stages, executor, weights, data, orch, clock, calls, log, hist, peer>>

\* Shutdown in the idle loop: ShuttingDown with the stage's index, run returns Ok.
StageIdleShutdown(s) ==
    /\ stage[s].pc = "loop"
    /\ ctlDown[s] # <<>>
    /\ Head(ctlDown[s]).type = "Shutdown"
    /\ ctlUp' = Append2(ctlUp, s, ShuttingDown(s))
    /\ ctlDown' = Pop(ctlDown, s)
    /\ stage' = [stage EXCEPT ![s] = [IdleStage EXCEPT !.pc = "exited"]]
    /\ UNCHANGED <<libVars, dataBack, num_stages, executor, weights, data, orch, clock, calls, log, hist, peer>>

\* Init or EstablishDataChannels in the process loop: a protocol error ends run.
StageIdleUnexpected(s) ==
    /\ stage[s].pc = "loop"
    /\ ctlDown[s] # <<>>
    /\ Head(ctlDown[s]).type \in {"Init", "EstablishDataChannels"}
    /\ ctlDown' = Pop(ctlDown, s)
    /\ stage' = [stage EXCEPT ![s] = [IdleStage EXCEPT !.pc = "crashed"]]
    /\ UNCHANGED <<libVars, dataBack, num_stages, executor, weights, ctlUp, data, orch, clock, calls, log, hist, peer>>

\* ------------------------------------------------------------- stage: process_request
\* InferenceSchedule::generate failed (num_micro_batches = 0): process_request
\* returns the error on its first poll.
StageScheduleError(s) ==
    /\ stage[s].pc = "run"
    /\ stage[s].ph = "sched"
    /\ stage' = [stage EXCEPT ![s] = Failed(@, SchedulerText)]
    /\ UNCHANGED <<libVars, dataBack, num_stages, executor, weights, ctlDown, ctlUp, data, orch, clock, calls, log, hist, peer>>

\* recv_tensors: one message of data-in.
StageRecvData_eager(s) ==
    /\ stage[s].pc = "run"
    /\ stage[s].ph = "recv"
    /\ data[s] # <<>>
    /\ LET msg == Head(data[s]) IN
       /\ stage' = [stage EXCEPT ![s] =
                       IF msg.k = "T" THEN [@ EXCEPT !.inputs = Append(@, msg.name), !.ph = "fwd"]
                       ELSE IF msg.k = "END" THEN [@ EXCEPT !.ph = "fwd"]
                       ELSE Failed(@, UpstreamText)]
       /\ hist' = [hist EXCEPT ![s].ev = Append(@, <<"read", msg.k>>)]
    /\ data' = Pop(data, s)
    /\ UNCHANGED <<libVars, dataBack, num_stages, executor, weights, ctlDown, ctlUp, orch, clock, calls, log, peer>>

StageRecvData(s) ==
    /\ stage[s].pc = "run"
    /\ stage[s].ph = "recv"
    /\ data[s] # <<>>
    /\ LET msg == Head(data[s]) IN
       /\ stage' = [stage EXCEPT ![s] =
                       IF msg.k = "T" THEN [@ EXCEPT !.inputs = Append(@, msg.name)]
                       ELSE IF msg.k = "END" THEN [@ EXCEPT !.ph = "fwd"]
                       ELSE Failed(@, UpstreamText)]
       /\ hist' = [hist EXCEPT ![s].ev = Append(@, <<"read", msg.k>>)]
    /\ data' = Pop(data, s)
    /\ UNCHANGED <<libVars, dataBack, num_stages, executor, weights, ctlDown, ctlUp, orch, clock, calls, log, peer>>

\* executor.forward: the identity executor returns its inputs; a flaky one
\* returns them or fails.
StageForward(s) ==
    /\ stage[s].pc = "run"
    /\ stage[s].ph = "fwd"
    /\ \E ok \in (IF executor[s] = "identity" THEN {TRUE} ELSE BOOLEAN) :
          LET st == stage[s]
              mb == st.ops[st.pos].micro_batch
              call == [request_id |-> st.request_id, micro_batch |-> mb,
                       inputs |-> st.inputs, ok |-> ok]
          IN  /\ stage' = [stage EXCEPT ![s] =
                              IF ok
                              THEN [@ EXCEPT !.ph = "send", !.inputs = <<>>,
                                             !.out = [i \in 1 .. Len(st.inputs) |->
                                                         Tensor(st.inputs[i])] \o <<END>>]
                              ELSE Failed(@, ForwardText)]
              /\ hist' = [hist EXCEPT ![s].fwd = Append(@, call), ![s].ev = Append(@, <<"forward", "">>)]
    /\ UNCHANGED <<libVars, dataBack, num_stages, executor, weights, ctlDown, ctlUp, data, orch, clock, calls, log, peer>>

\* send_tensors: one message to data-out; after the END the loops run on.
StageSendData(s) ==
    /\ stage[s].pc = "run"
    /\ stage[s].ph = "send"
    /\ Room(s + 1)
    /\ LET st == stage[s] IN
       /\ data' = Append2(data, s + 1, Head(st.out))
       /\ hist' = [hist EXCEPT ![s].outLog = Append(@, Head(st.out)),
                                ![s].ev = Append(@, <<"write", Head(st.out).k>>)]
       /\ stage' = [stage EXCEPT ![s] =
                       IF Tail(st.out) = <<>>
                       THEN AfterOps([st EXCEPT !.out = <<>>,
                                                !.pos = NextForward(st.ops, st.pos + 1)])
                       ELSE [st EXCEPT !.out = Tail(st.out)]]
    /\ UNCHANGED <<libVars, dataBack, num_stages, executor, weights, ctlDown, ctlUp, orch, clock, calls, log, peer>>

\* ------------------------------------------------------------- stage: select! control branch
StageRunAbort_ignored(s) ==
    /\ stage[s].pc = "run"
    /\ ctlDown[s] # <<>>
    /\ Head(ctlDown[s]).type = "AbortRequest"
    /\ ctlDown' = Pop(ctlDown, s)
    /\ UNCHANGED <<libVars, dataBack, num_stages, executor, weights, ctlUp, data, stage, orch, clock, calls, log, hist, peer>>

\* AbortRequest during a request, whatever request it names: the select! loop
\* breaks with RequestFailed "aborted: {reason}" for the request in flight.
StageRunAbort(s) ==
    /\ stage[s].pc = "run"
    /\ ctlDown[s] # <<>>
    /\ Head(ctlDown[s]).type = "AbortRequest"
    /\ ctlDown' = Pop(ctlDown, s)
    /\ stage' = [stage EXCEPT ![s] = Failed(@, AbortedText(Head(ctlDown[s]).reason))]
    /\ UNCHANGED <<libVars, dataBack, num_stages, executor, weights, ctlUp, data, orch, clock, calls, log, hist, peer>>

StageRunPing_dropped(s) ==
    /\ stage[s].pc = "run"
    /\ ctlDown[s] # <<>>
    /\ Head(ctlDown[s]).type = "Ping"
    /\ ctlDown' = Pop(ctlDown, s)
    /\ UNCHANGED <<libVars, dataBack, num_stages, executor, weights, ctlUp, data, stage, orch, clock, calls, log, hist, peer>>

\* Ping during a request: Pong, and the select! loop goes on.
StageRunPing(s) ==
    /\ stage[s].pc = "run"
    /\ ctlDown[s] # <<>>
    /\ Head(ctlDown[s]).type = "Ping"
    /\ ctlUp' = Append2(ctlUp, s, Pong(Head(ctlDown[s]).id))
    /\ ctlDown' = Pop(ctlDown, s)
    /\ UNCHANGED <<libVars, dataBack, num_stages, executor, weights, data, stage, orch, clock, calls, log, hist, peer>>

\* Shutdown during a request: the future is dropped, ShuttingDown sent, run ends.
StageRunShutdown_noEarly(s) ==
    /\ stage[s].pc = "run"
    /\ ctlDown[s] # <<>>
    /\ Head(ctlDown[s]).type = "Shutdown"
    /\ ctlDown' = Pop(ctlDown, s)
    /\ stage' = [stage EXCEPT ![s] = Failed(@, <<"pipeline shutting down">>)]
    /\ UNCHANGED <<libVars, dataBack, num_stages, executor, weights, ctlUp, data, orch, clock, calls, log, hist, peer>>

StageRunShutdown(s) ==
    /\ stage[s].pc = "run"
    /\ ctlDown[s] # <<>>
    /\ Head(ctlDown[s]).type = "Shutdown"
    /\ ctlUp' = Append2(ctlUp, s, ShuttingDown(s))
    /\ ctlDown' = Pop(ctlDown, s)
    /\ stage' = [stage EXCEPT ![s] = [IdleStage EXCEPT !.pc = "exited"]]
    /\ UNCHANGED <<libVars, dataBack, num_stages, executor, weights, data, orch, clock, calls, log, hist, peer>>

\* Any other control message during a request is logged and dropped.
StageRunOther(s) ==
    /\ stage[s].pc = "run"
    /\ ctlDown[s] # <<>>
    /\ Head(ctlDown[s]).type \notin {"AbortRequest", "Ping", "Shutdown"}
    /\ ctlDown' = Pop(ctlDown, s)
    /\ UNCHANGED <<libVars, dataBack, num_stages, executor, weights, ctlUp, data, stage, orch, clock, calls, log, hist, peer>>

\* ------------------------------------------------------------- stage: match result
StageReportDone(s) ==
    /\ stage[s].pc = "report_done"
    /\ ctlUp' = Append2(ctlUp, s, RequestDone(stage[s].request_id))
    /\ stage' = [stage EXCEPT ![s] = IdleStage]
    /\ UNCHANGED <<libVars, dataBack, num_stages, executor, weights, ctlDown, data, orch, clock, calls, log, hist, peer>>

StageFailErr(s) ==
    /\ stage[s].pc = "fail_err"
    /\ Room(s + 1)
    /\ data' = Append2(data, s + 1, ERROR_SENTINEL)
    /\ stage' = [stage EXCEPT ![s].pc = "fail_rep"]
    /\ hist' = [hist EXCEPT ![s].outLog = Append(@, ERROR_SENTINEL)]
    /\ UNCHANGED <<libVars, dataBack, num_stages, executor, weights, ctlDown, ctlUp, orch, clock, calls, log, peer>>

StageFailReport_exits(s) ==
    /\ stage[s].pc = "fail_rep"
    /\ ctlUp' = Append2(ctlUp, s, RequestError(stage[s].request_id, stage[s].err))
    /\ stage' = [stage EXCEPT ![s] = [IdleStage EXCEPT !.pc = "exited"]]
    /\ UNCHANGED <<libVars, dataBack, num_stages, executor, weights, ctlDown, data, orch, clock, calls, log, hist, peer>>

StageFailReport(s) ==
    /\ stage[s].pc = "fail_rep"
    /\ ctlUp' = Append2(ctlUp, s, RequestError(stage[s].request_id, stage[s].err))
    /\ stage' = [stage EXCEPT ![s] = IdleStage]
    /\ UNCHANGED <<libVars, dataBack, num_stages, executor, weights, ctlDown, data, orch, clock, calls, log, hist, peer>>

\* ------------------------------------------------------------- orchestrator: infer
\* rand_request_id: the wall clock in nanoseconds.  In Spec time passes between
\* two calls and nobody sets the clock, so the clock has advanced when it is
\* read again; ClockSpec adds the steps of a wall clock that is set back.
rand_request_id == clock

\* The input of the c-th call: m micro-batches of n tensors.  A tensor's name
\* tells the call, the micro-batch and the position it was given at, so a
\* tensor that surfaces anywhere else is recognised.
Input(c, m, n) == [i \in 1 .. m |-> [j \in 1 .. n |-> c * 100 + i * 10 + j]]

\* What infer_inner writes to data-in: per micro-batch its tensors, then END.
DataInMessages(input) ==
    FlattenSeqs([i \in 1 .. Len(input) |->
                    [j \in 1 .. Len(input[i]) |-> Tensor(input[i][j])] \o <<END>>])

\* Every stage sits idle in its process loop with nothing left to read on its
\* control channel: it has reported on every request it was sent.
Settled == \A s \in Stages : stage[s].pc = "loop" /\ ctlDown[s] = <<>>

\* Stage s was sent StartRequest for request id and has not yet sent its
\* RequestDone or RequestError.
Undelivered(s, id) ==
    \/ \E k \in 1 .. Len(ctlDown[s]) :
          ctlDown[s][k].type = "StartRequest" /\ ctlDown[s][k].id = id
    \/ stage[s].request_id = id /\ stage[s].pc \notin {"loop", "exited", "crashed"}

\* What the caller and an observer know of a finished call: what was called
\* with what, what it returned, whether every stage was settled when it was
\* called, whether a stage still owed its reply when it returned.
Entry(call, kind, outputs) ==
    [call |-> call, kind |-> kind, request_id |-> orch.request_id,
     seq_len |-> orch.seq_len, input |-> orch.input, outputs |-> outputs,
     settled |-> orch.settled,
     undrained |-> \E s \in Stages : Undelivered(s, orch.request_id)]

\* The call in progress returns to the caller.
Return(call, kind, outputs) ==
    /\ log' = Append(log, Entry(call, kind, outputs))
    /\ orch' = [IdleOrch EXCEPT !.relays = orch.relays]

InferPcs == {"start", "push", "recv", "collect_ok", "collect_err"}

\* infer(input_tensors, seq_len): mints the request id; no micro-batch, no I/O.
InferCall_noEmptyCheck(m, n, sl) ==
    /\ orch.pc = "idle"
    /\ calls < MaxCalls
    /\ calls' = calls + 1
    /\ clock' = clock + 1
    /\ orch' = [orch EXCEPT !.request_id = rand_request_id, !.num_micro_batches = m,
                            !.seq_len = sl, !.input = Input(calls + 1, m, n),
                            !.settled = Settled, !.pc = "start", !.idx = 0,
                            !.pushq = DataInMessages(Input(calls + 1, m, n))]
    /\ log' = log
    /\ UNCHANGED <<libVars, dataBack, num_stages, executor, weights, ctlDown, ctlUp, data, stage, hist, peer>>

InferCall(m, n, sl) ==
    /\ orch.pc = "idle"
    /\ calls < MaxCalls
    /\ calls' = calls + 1
    /\ clock' = clock + 1
    /\ LET input == Input(calls + 1, m, n)
           o == [orch EXCEPT !.request_id = rand_request_id, !.num_micro_batches = m,
                             !.seq_len = sl, !.input = input, !.settled = Settled]
       IN  IF m = 0
           THEN /\ log' = Append(log, [call |-> "infer", kind |-> "Ok",
                                       request_id |-> o.request_id, seq_len |-> sl,
                                       input |-> input, outputs |-> <<>>,
                                       settled |-> o.settled, undrained |-> FALSE])
                /\ orch' = orch
           ELSE /\ orch' = [o EXCEPT !.pc = "start", !.idx = 0,
                                     !.pushq = DataInMessages(input)]
                /\ log' = log
    /\ UNCHANGED <<libVars, dataBack, num_stages, executor, weights, ctlDown, ctlUp, data, stage, hist, peer>>

\* StartRequest to the next stage, in index order.
OrchSendStart ==
    /\ orch.pc = "start"
    /\ ctlDown' = Append2(ctlDown, orch.idx,
                          StartRequest(orch.request_id, orch.num_micro_batches, orch.seq_len))
    /\ orch' = IF orch.idx + 1 = num_stages
               THEN [orch EXCEPT !.pc = "push", !.idx = 0]
               ELSE [orch EXCEPT !.idx = @ + 1]
    /\ UNCHANGED <<libVars, dataBack, num_stages, executor, weights, ctlUp, data, stage, clock, calls, log, hist, peer>>

\* The next tensor or END of the input to data-in.
OrchPush ==
    /\ orch.pc = "push"
    /\ Room(0)
    /\ data' = Append2(data, 0, Head(orch.pushq))
    /\ orch' = IF Tail(orch.pushq) = <<>>
               THEN [orch EXCEPT !.pc = "recv", !.pushq = <<>>]
               ELSE [orch EXCEPT !.pushq = Tail(@)]
    /\ UNCHANGED <<libVars, dataBack, num_stages, executor, weights, ctlDown, ctlUp, stage, clock, calls, log, hist, peer>>

\* receive_all_outputs / recv_output_tensors: one message of data-out.
OrchRecvOutput ==
    /\ orch.pc = "recv"
    /\ data[num_stages] # <<>>
    /\ LET msg == Head(data[num_stages]) IN
       orch' = IF msg.k = "T" THEN [orch EXCEPT !.cur = Append(@, msg.name)]
               ELSE IF msg.k = "END"
               THEN IF Len(orch.outputs) + 1 = orch.num_micro_batches
                    THEN [orch EXCEPT !.outputs = Append(@, orch.cur), !.cur = <<>>,
                                      !.pc = "collect_ok", !.idx = 0]
                    ELSE [orch EXCEPT !.outputs = Append(@, orch.cur), !.cur = <<>>]
               ELSE [orch EXCEPT !.pc = "collect_err", !.idx = 0,
                                 !.outputs = <<>>, !.cur = <<>>]
    /\ data' = Pop(data, num_stages)
    /\ UNCHANGED <<libVars, dataBack, num_stages, executor, weights, ctlDown, ctlUp, stage, clock, calls, log, hist, peer>>

\* The Ok arm: the next stage's control message must be this request's
\* RequestDone.
OrchCollectDone_anyDone ==
    /\ orch.pc = "collect_ok"
    /\ ctlUp[orch.idx] # <<>>
    /\ LET msg == Head(ctlUp[orch.idx]) IN
       IF msg.type = "RequestDone"
       THEN IF orch.idx + 1 = num_stages
            THEN Return("infer", "Ok", orch.outputs)
            ELSE orch' = [orch EXCEPT !.idx = @ + 1] /\ log' = log
       ELSE IF msg.type = "RequestError" /\ msg.id = orch.request_id
       THEN Return("infer", "RequestFailed", <<>>)
       ELSE Return("infer", "Protocol", <<>>)
    /\ ctlUp' = Pop(ctlUp, orch.idx)
    /\ UNCHANGED <<libVars, dataBack, num_stages, executor, weights, ctlDown, data, stage, clock, calls, hist, peer>>

OrchCollectDone ==
    /\ orch.pc = "collect_ok"
    /\ ctlUp[orch.idx] # <<>>
    /\ LET msg == Head(ctlUp[orch.idx]) IN
       IF msg.type = "RequestDone" /\ msg.id = orch.request_id
       THEN IF orch.idx + 1 = num_stages
            THEN Return("infer", "Ok", orch.outputs)
            ELSE orch' = [orch EXCEPT !.idx = @ + 1] /\ log' = log
       ELSE IF msg.type = "RequestError" /\ msg.id = orch.request_id
       THEN Return("infer", "RequestFailed", <<>>)
       ELSE Return("infer", "Protocol", <<>>)
    /\ ctlUp' = Pop(ctlUp, orch.idx)
    /\ UNCHANGED <<libVars, dataBack, num_stages, executor, weights, ctlDown, data, stage, clock, calls, hist, peer>>

\* The StageFailed arm: read the stages' control messages in order up to this
\* request's RequestError; without one the failure is reported all the same.
OrchCollectError ==
    /\ orch.pc = "collect_err"
    /\ ctlUp[orch.idx] # <<>>
    /\ LET msg == Head(ctlUp[orch.idx]) IN
       IF msg.type = "RequestError" /\ msg.id = orch.request_id
       THEN Return("infer", "RequestFailed", <<>>)
       ELSE IF orch.idx + 1 = num_stages
       THEN Return("infer", "RequestFailed", <<>>)
       ELSE orch' = [orch EXCEPT !.idx = @ + 1] /\ log' = log
    /\ ctlUp' = Pop(ctlUp, orch.idx)
    /\ UNCHANGED <<libVars, dataBack, num_stages, executor, weights, ctlDown, data, stage, clock, calls, hist, peer>>

\* infer_inner is Pending: it awaits a message that has not arrived, or room
\* on data-in.  (timeout polls the inner future first, and a send to an
\* established channel with room completes at once, so the timer is looked at
\* only at such a recv or at a send without room.)
InferBlocked ==
    \/ orch.pc = "push" /\ ~Room(0)
    \/ orch.pc = "recv" /\ data[num_stages] = <<>>
    \/ orch.pc \in {"collect_ok", "collect_err"} /\ ctlUp[orch.idx] = <<>>

\* tokio::time::timeout around infer_inner fires: the future is dropped where
\* it stands and infer returns Timeout.
InferTimeout ==
    /\ orch.pc \in InferPcs
    /\ InferBlocked
    /\ Return("infer", "Timeout", <<>>)
    /\ UNCHANGED <<libVars, dataBack, num_stages, executor, weights, ctlDown, ctlUp, data, stage, clock, calls, hist, peer>>

\* ------------------------------------------------------------- orchestrator: health_check
HealthCheckCall ==
    /\ orch.pc = "idle"
    /\ calls < MaxCalls
    /\ calls' = calls + 1
    /\ clock' = clock + 1
    /\ orch' = [orch EXCEPT !.pc = "hc_send", !.idx = 0, !.request_id = rand_request_id,
                            !.settled = Settled]
    /\ UNCHANGED <<libVars, dataBack, num_stages, executor, weights, ctlDown, ctlUp, data, stage, log, hist, peer>>

OrchSendPing ==
    /\ orch.pc = "hc_send"
    /\ ctlDown' = Append2(ctlDown, orch.idx, Ping(orch.request_id))
    /\ orch' = IF orch.idx + 1 = num_stages
               THEN [orch EXCEPT !.pc = "hc_recv", !.idx = 0]
               ELSE [orch EXCEPT !.idx = @ + 1]
    /\ UNCHANGED <<libVars, dataBack, num_stages, executor, weights, ctlUp, data, stage, clock, calls, log, hist, peer>>

\* The next stage's control message must be the Pong of this seq.
OrchRecvPong ==
    /\ orch.pc = "hc_recv"
    /\ ctlUp[orch.idx] # <<>>
    /\ LET msg == Head(ctlUp[orch.idx]) IN
       IF msg.type = "Pong" /\ msg.id = orch.request_id
       THEN IF orch.idx + 1 = num_stages
            THEN Return("health_check", "Ok", <<>>)
            ELSE orch' = [orch EXCEPT !.idx = @ + 1] /\ log' = log
       ELSE Return("health_check", "StageFailed", <<>>)
    /\ ctlUp' = Pop(ctlUp, orch.idx)
    /\ UNCHANGED <<libVars, dataBack, num_stages, executor, weights, ctlDown, data, stage, clock, calls, hist, peer>>

HealthCheckTimeout ==
    /\ orch.pc = "hc_recv"
    /\ ctlUp[orch.idx] = <<>>
    /\ Return("health_check", "Timeout", <<>>)
    /\ UNCHANGED <<libVars, dataBack, num_stages, executor, weights, ctlDown, ctlUp, data, stage, clock, calls, hist, peer>>

\* ------------------------------------------------------------- orchestrator: shutdown
\* The number of shutdown calls that have returned.
Shutdowns == Cardinality({i \in 1 .. Len(log) : log[i].call = "shutdown"})

\* run has returned for stage s: its ends of the channels are dropped.
Gone(s) == stage[s].pc \in {"exited", "crashed"}

\* shutdown returns; the caller holds a shut-down orchestrator from now on.
ShutdownReturn_reopened(kind, relays) ==
    /\ log' = Append(log, Entry("shutdown", kind, <<>>))
    /\ orch' = [IdleOrch EXCEPT !.pc = IF kind = "Ok" THEN "closed" ELSE "idle",
                                !.relays = IF kind = "Ok" THEN relays ELSE "running"]

ShutdownReturn(kind, relays) ==
    /\ log' = Append(log, Entry("shutdown", kind, <<>>))
    /\ orch' = [IdleOrch EXCEPT !.pc = "closed", !.relays = relays]

\* The caller shuts the pipeline down after its other calls (an infer without
\* micro-batches touches nothing, so fewer calls before shutdown are covered),
\* and may call shutdown again after it returned.
ShutdownCall ==
    /\ orch.pc \in {"idle", "closed"}
    /\ calls = MaxCalls
    /\ Shutdowns < MaxShutdowns
    /\ orch' = [orch EXCEPT !.pc = "sd_send", !.idx = 0, !.settled = Settled]
    /\ UNCHANGED <<libVars, dataBack, num_stages, executor, weights, ctlDown, ctlUp, data, stage, clock, calls, log, hist, peer>>

\* Shutdown to the next stage.  A stage whose run has returned has dropped its
\* channel: the write is lost in the transport or fails with a transport error.
OrchSendShutdown ==
    /\ orch.pc = "sd_send"
    /\ LET next == IF orch.idx + 1 = num_stages
                   THEN [orch EXCEPT !.pc = "sd_recv", !.idx = 0]
                   ELSE [orch EXCEPT !.idx = @ + 1]
       IN  IF ~Gone(orch.idx)
           THEN /\ ctlDown' = Append2(ctlDown, orch.idx, ShutdownMsg)
                /\ orch' = next
                /\ log' = log
           ELSE /\ ctlDown' = ctlDown
                /\ \/ orch' = next /\ log' = log
                   \/ ShutdownReturn("Transport", orch.relays)
    /\ UNCHANGED <<libVars, dataBack, num_stages, executor, weights, ctlUp, data, stage, clock, calls, hist, peer>>

\* One control message per stage, ShuttingDown or not; then the relays are
\* aborted and shutdown returns Ok.
OrchRecvShuttingDown ==
    /\ orch.pc = "sd_recv"
    /\ ctlUp[orch.idx] # <<>>
    /\ IF orch.idx + 1 = num_stages
       THEN ShutdownReturn("Ok", "aborted")
       ELSE orch' = [orch EXCEPT !.idx = @ + 1] /\ log' = log
    /\ ctlUp' = Pop(ctlUp, orch.idx)
    /\ UNCHANGED <<libVars, dataBack, num_stages, executor, weights, ctlDown, data, stage, clock, calls, hist, peer>>

\* recv_stage_msg on the channel of a stage whose run has returned, nothing
\* left to read: the transport reports the closed channel and shutdown returns
\* the error, before the relays are looked at.
OrchRecvClosed ==
    /\ orch.pc = "sd_recv"
    /\ ctlUp[orch.idx] = <<>>
    /\ Gone(orch.idx)
    /\ ShutdownReturn("Transport", orch.relays)
    /\ UNCHANGED <<libVars, dataBack, num_stages, executor, weights, ctlDown, ctlUp, data, stage, clock, calls, hist, peer>>

\* ------------------------------------------------------------- the pipeline
\* AbortRequest, Init and EstablishDataChannels are never sent by this
\* orchestrator to a stage in its process loop, so the stage's handlers for them
\* are steps of PeerSpec only.
Next ==
    \/ \E m \in 0 .. MaxMB, n \in 1 .. MaxTensors, sl \in SeqLens : InferCall(m, n, sl)
    \/ OrchSendStart
    \/ OrchPush
    \/ OrchRecvOutput
    \/ OrchCollectDone
    \/ OrchCollectError
    \/ InferTimeout
    \/ HealthCheckCall
    \/ OrchSendPing
    \/ OrchRecvPong
    \/ HealthCheckTimeout
    \/ ShutdownCall
    \/ OrchSendShutdown
    \/ OrchRecvShuttingDown
    \/ OrchRecvClosed
    \/ \E s \in Stages : StageStartRequest(s)
    \/ \E s \in Stages : StageRejectErr(s)
    \/ \E s \in Stages : StageRejectReport(s)
    \/ \E s \in Stages : StageIdlePing(s)
    \/ \E s \in Stages : StageIdleShutdown(s)
    \/ \E s \in Stages : StageRecvData(s)
    \/ \E s \in Stages : StageForward(s)
    \/ \E s \in Stages : StageSendData(s)
    \/ \E s \in Stages : StageRunPing(s)
    \/ \E s \in Stages : StageRunShutdown(s)
    \/ \E s \in Stages : StageRunOther(s)
    \/ \E s \in Stages : StageReportDone(s)
    \/ \E s \in Stages : StageFailErr(s)
    \/ \E s \in Stages : StageFailReport(s)

Spec == Init /\ [][Next]_vars

\* ------------------------------------------------------------- one stage and an open peer
\* A stage runtime serves whoever holds the other ends of its channels.  Here
\* stage peer.focus is driven by a peer that may send any control message and
\* any data-in message in any order; its data-out and its replies pile up.  The
\* stage is met either in its process loop or as it awaits Init.
PeerInit ==
    /\ LibIdle
    /\ capacity = Ample
    /\ num_stages \in 1 .. MaxStages
    /\ dataBack = [i \in 0 .. num_stages |-> <<>>]
    /\ executor = [s \in 0 .. (num_stages - 1) |-> "flaky"]
    /\ \E f \in 0 .. (num_stages - 1) :
          /\ peer = [focus |-> f, ctl |-> 0, data |-> 0]
          /\ \/ /\ weights = [s \in 0 .. (num_stages - 1) |-> Loaded]
                /\ stage = [s \in 0 .. (num_stages - 1) |-> IdleStage]
             \/ \E w \in WeightCases :
                   /\ weights = [s \in 0 .. (num_stages - 1) |-> IF s = f THEN w ELSE Loaded]
                   /\ stage = [s \in 0 .. (num_stages - 1) |->
                                  IF s = f THEN NewStage ELSE IdleStage]
    /\ ctlDown = [s \in 0 .. (num_stages - 1) |-> <<>>]
    /\ ctlUp = [s \in 0 .. (num_stages - 1) |-> <<>>]
    /\ data = [i \in 0 .. num_stages |-> <<>>]
    /\ orch = IdleOrch
    /\ clock = 1
    /\ calls = 0
    /\ log = <<>>
    /\ hist = [s \in 0 .. (num_stages - 1) |->
                  IF stage[s].pc = "loop" THEN SetUpHist ELSE NoHist]

\* The reasons a peer gives for an abort.
Reasons == {"timeout", "cancelled"}

\* The k-th control message of the peer: a StartRequest carries k as its
\* request id (a fresh id per request) and any number of micro-batches, or a
\* seq_len over the limit; an AbortRequest names the request in flight or
\* another one.
PeerCtlMsgs(k) ==
    {StartRequest(k, m, max_seq_len) : m \in 0 .. MaxMB}
    \cup {StartRequest(k, 1, max_seq_len + 1)}
    \cup {AbortRequest(id, r) : id \in 1 .. (MaxPeerCtl - 1), r \in Reasons}
    \cup {Ping(k), ShutdownMsg, InitMsg, EstablishDataChannels}

PeerDataMsgs == {Tensor(1), END, ERROR_SENTINEL}

PeerSendCtl ==
    /\ peer.ctl < MaxPeerCtl
    /\ \E msg \in PeerCtlMsgs(peer.ctl + 1) : ctlDown' = Append2(ctlDown, peer.focus, msg)
    /\ peer' = [peer EXCEPT !.ctl = @ + 1]
    /\ UNCHANGED <<libVars, dataBack, num_stages, executor, weights, ctlUp, data, stage, orch, clock, calls, log, hist>>

\* The data channels of a stage exist once its run_data_phase set them up.
PeerSendData ==
    /\ peer.data < MaxPeerData
    /\ stage[peer.focus].pc \notin {"init_wait", "exec_init", "send_ready", "wait_edc"}
    /\ \E msg \in PeerDataMsgs : data' = Append2(data, peer.focus, msg)
    /\ peer' = [peer EXCEPT !.data = @ + 1]
    /\ UNCHANGED <<libVars, dataBack, num_stages, executor, weights, ctlDown, ctlUp, stage, orch, clock, calls, log, hist>>

\* The peer dials the stage's data-in: its Hello, and its confirmation of the
\* stage's Hello.
PeerDialDataIn ==
    /\ stage[peer.focus].pc = "accept_in"
    /\ data[peer.focus] = <<>>
    /\ data' = Append2(data, peer.focus, HelloData)
    /\ UNCHANGED <<libVars, dataBack, num_stages, executor, weights, ctlDown, ctlUp, stage, orch, clock, calls, log, hist, peer>>

PeerDataInConfirm ==
    /\ dataBack[peer.focus] # <<>>
    /\ dataBack' = Pop(dataBack, peer.focus)
    /\ data' = Append2(data, peer.focus, HelloData)
    /\ UNCHANGED <<libVars, num_stages, executor, weights, ctlDown, ctlUp, stage, orch, clock, calls, log, hist, peer>>

\* The peer accepts the stage's data-out: it takes the stage's Hello frames and
\* answers the first.
PeerAcceptDataOut ==
    /\ data[peer.focus + 1] # <<>>
    /\ Head(data[peer.focus + 1]) = HelloData
    /\ data' = Pop(data, peer.focus + 1)
    /\ dataBack' = IF stage[peer.focus].pc = "connect_reply"
                   THEN Append2(dataBack, peer.focus + 1, HelloData)
                   ELSE dataBack
    /\ UNCHANGED <<libVars, num_stages, executor, weights, ctlDown, ctlUp, stage, orch, clock, calls, log, hist, peer>>

PeerNext ==
    \/ PeerSendCtl
    \/ PeerSendData
    \/ PeerDialDataIn
    \/ PeerDataInConfirm
    \/ PeerAcceptDataOut
    \/ \E s \in Stages : StageAcceptDataIn(s)
    \/ \E s \in Stages : StageDataInConfirm(s)
    \/ \E s \in Stages : StageConnectDataOut(s)
    \/ \E s \in Stages : StageDataOutReply(s)
    \/ \E s \in Stages : StageHandleInit(s)
    \/ \E s \in Stages : StageExecutorInit(s)
    \/ \E s \in Stages : StageSendReady(s)
    \/ \E s \in Stages : StageWaitEstablish(s)
    \/ \E s \in Stages : StageWaitPing(s)
    \/ \E s \in Stages : StageDataChannelsReady(s)
    \/ \E s \in Stages : StageStartRequest(s)
    \/ \E s \in Stages : StageRejectErr(s)
    \/ \E s \in Stages : StageRejectReport(s)
    \/ \E s \in Stages : StageIdleAbort(s)
    \/ \E s \in Stages : StageIdlePing(s)
    \/ \E s \in Stages : StageIdleShutdown(s)
    \/ \E s \in Stages : StageIdleUnexpected(s)
    \/ \E s \in Stages : StageScheduleError(s)
    \/ \E s \in Stages : StageRecvData(s)
    \/ \E s \in Stages : StageForward(s)
    \/ \E s \in Stages : StageSendData(s)
    \/ \E s \in Stages : StageRunAbort(s)
    \/ \E s \in Stages : StageRunPing(s)
    \/ \E s \in Stages : StageRunShutdown(s)
    \/ \E s \in Stages : StageRunOther(s)
    \/ \E s \in Stages : StageReportDone(s)
    \/ \E s \in Stages : StageFailErr(s)
    \/ \E s \in Stages : StageFailReport(s)

PeerSpec == PeerInit /\ [][PeerNext]_vars

\* ------------------------------------------------------------- the set-up of a pipeline
\* Orchestrator::new has returned; the stage runtimes have been started on their
\* transports.  pc of the orchestrator during the set-up:
\*   "new"          constructed, init not yet called
\*   "ctl_connect"  init: connect of the next control channel, Hello not yet sent (109)
\*   "ctl_reply"    init: the connect awaits the stage's Hello
\*   "init_send"    init: Init to the next stage                 (124)
\*   "init_recv"    init: the next stage's reply is awaited       (141)
\*   "inited"       init returned Ok
\*   "edc_send"     send_establish_data_channels: the next stage  (196)
\*   "edc_sent"     send_establish_data_channels returned Ok
\*   "din_connect"  complete_data_channels: connect of data-in    (226)
\*   "din_reply"    the connect of data-in awaits stage 0's Hello
\*   "dout_accept"  accept of data-out awaits the last stage's Hello (237)
\*   "dout_confirm" accept of data-out awaits the confirmation
\*   "dcr_recv"     the next stage's DataChannelsReady is awaited (247)
\*   "failed"       a call returned an error
NewOrch == [IdleOrch EXCEPT !.pc = "new", !.relays = "none"]

\* A stage runtime whose run has been called: it accepts its control channel.
FreshStage == [IdleStage EXCEPT !.pc = "ctl_accept"]

\* The far end of a control transport that is held by something else than a
\* stage runtime: it completes the handshake and answers Init as it likes.
ForeignEnd == [IdleStage EXCEPT !.pc = "foreign"]

ForeignReplies(s) == {Ready(s), DataChannelsReady(s), Pong(0), ShuttingDown(s)}

\* What the set-up runs of the tests declare and load: no hashes, an executor
\* whose init fails, hashes that agree, a hash that differs.
SetupWeights ==
    {Loaded,
     [declared |-> <<1>>, actual |-> <<1>>, init_ok |-> FALSE],
     [declared |-> <<1>>, actual |-> <<1>>, init_ok |-> TRUE],
     [declared |-> <<1>>, actual |-> <<2>>, init_ok |-> TRUE]}

SetupInit ==
    /\ LibIdle
    /\ capacity = Ample
    /\ num_stages \in 1 .. MaxSetupStages
    /\ dataBack = [i \in 0 .. num_stages |-> <<>>]
    /\ executor = [s \in 0 .. (num_stages - 1) |-> "identity"]
    /\ weights \in [0 .. (num_stages - 1) -> SetupWeights]
    /\ ctlDown = [s \in 0 .. (num_stages - 1) |-> <<>>]
    /\ ctlUp = [s \in 0 .. (num_stages - 1) |-> <<>>]
    /\ data = [i \in 0 .. num_stages |-> <<>>]
    /\ \E f \in -1 .. (num_stages - 1) :
          stage = [s \in 0 .. (num_stages - 1) |-> IF s = f THEN ForeignEnd ELSE FreshStage]
    /\ orch = NewOrch
    /\ clock = 1
    /\ calls = 0
    /\ log = <<>>
    /\ hist = [s \in 0 .. (num_stages - 1) |-> NoHist]
    /\ peer = [focus |-> 0, ctl |-> 0, data |-> 0]

\* The control transports a caller passes to init, each named by the stage
\* its far end belongs to.
Transports(n) == [i \in 1 .. n |-> i - 1]

\* What the caller knows of a finished call of the set-up: what was called
\* with what, what it returned.
SetupEntry(call, kind, input) ==
    [call |-> call, kind |-> kind, request_id |-> 0, seq_len |-> 0, input |-> input,
     outputs |-> <<>>, settled |-> FALSE, undrained |-> FALSE]

\* A call of the set-up returns an error: the set-up is over.
SetupFails(call, kind) ==
    /\ log' = Append(log, SetupEntry(call, kind, orch.input))
    /\ orch' = [orch EXCEPT !.pc = "failed", !.idx = 0]

\* The position after the one at orch.idx, or pc when every stage was visited.
AfterStage(pc) ==
    IF orch.idx + 1 = num_stages
    THEN [orch EXCEPT !.pc = pc, !.idx = 0]
    ELSE [orch EXCEPT !.idx = @ + 1]

\* init(control_transports, verifier): one transport per manifest stage.
InitCall(control_transports) ==
    /\ orch.pc = "new"
    /\ IF Len(control_transports) # num_stages
       THEN /\ log' = Append(log, SetupEntry("init", "Protocol", control_transports))
            /\ orch' = [orch EXCEPT !.pc = "failed", !.input = control_transports]
       ELSE /\ log' = log
            /\ orch' = [orch EXCEPT !.pc = "ctl_connect", !.idx = 0,
                                    !.input = control_transports]
    /\ UNCHANGED <<libVars, dataBack, num_stages, executor, weights, ctlDown, ctlUp, data, stage, clock, calls, hist, peer>>

\* connect_with_attestation on the next control transport: Hello ...
OrchConnectControl ==
    /\ orch.pc = "ctl_connect"
    /\ ctlDown' = Append2(ctlDown, orch.idx, HelloDown)
    /\ orch' = [orch EXCEPT !.pc = "ctl_reply"]
    /\ UNCHANGED <<libVars, dataBack, num_stages, executor, weights, ctlUp, data, stage, clock, calls, log, hist, peer>>

\* ... and the confirmation of the stage's Hello; then the next transport, and
\* after the last one the Init messages.
OrchControlReply ==
    /\ orch.pc = "ctl_reply"
    /\ ctlUp[orch.idx] # <<>>
    /\ ctlUp' = Pop(ctlUp, orch.idx)
    /\ ctlDown' = Append2(ctlDown, orch.idx, HelloDown)
    /\ orch' = IF orch.idx + 1 = num_stages
               THEN [orch EXCEPT !.pc = "init_send", !.idx = 0]
               ELSE [orch EXCEPT !.pc = "ctl_connect", !.idx = @ + 1]
    /\ UNCHANGED <<libVars, dataBack, num_stages, executor, weights, data, stage, clock, calls, log, hist, peer>>

\* Init to the next stage, in index order.
OrchSendInit ==
    /\ orch.pc = "init_send"
    /\ ctlDown' = Append2(ctlDown, orch.idx, InitMsg)
    /\ orch' = AfterStage("init_recv")
    /\ UNCHANGED <<libVars, dataBack, num_stages, executor, weights, ctlUp, data, stage, clock, calls, log, hist, peer>>

OrchRecvReady_anyReply ==
    /\ orch.pc = "init_recv"
    /\ ctlUp[orch.idx] # <<>>
    /\ ctlUp' = Pop(ctlUp, orch.idx)
    /\ orch' = AfterStage("inited")
    /\ log' = IF orch.idx + 1 = num_stages
              THEN Append(log, SetupEntry("init", "Ok", orch.input))
              ELSE log
    /\ UNCHANGED <<libVars, dataBack, num_stages, executor, weights, ctlDown, data, stage, clock, calls, hist, peer>>

\* The next stage's reply must be Ready (whatever stage_idx it carries).
OrchRecvReady ==
    /\ orch.pc = "init_recv"
    /\ ctlUp[orch.idx] # <<>>
    /\ ctlUp' = Pop(ctlUp, orch.idx)
    /\ IF Head(ctlUp[orch.idx]).type # "Ready"
       THEN SetupFails("init", "Protocol")
       ELSE /\ orch' = AfterStage("inited")
            /\ log' = IF orch.idx + 1 = num_stages
                      THEN Append(log, SetupEntry("init", "Ok", orch.input))
                      ELSE log
    /\ UNCHANGED <<libVars, dataBack, num_stages, executor, weights, ctlDown, data, stage, clock, calls, hist, peer>>

\* recv_stage_msg on the control channel of a stage whose run has returned: the
\* transport reports the closed channel and the call returns the error.
OrchSetupClosed ==
    /\ orch.pc \in {"init_recv", "dcr_recv"}
    /\ ctlUp[orch.idx] = <<>>
    /\ Gone(orch.idx)
    /\ SetupFails(IF orch.pc = "init_recv" THEN "init" ELSE "complete_data_channels",
                  "Transport")
    /\ UNCHANGED <<libVars, dataBack, num_stages, executor, weights, ctlDown, ctlUp, data, stage, clock, calls, hist, peer>>

\* send_establish_data_channels, called after init returned Ok.
SendEstablishCall ==
    /\ orch.pc = "inited"
    /\ orch' = [orch EXCEPT !.pc = "edc_send", !.idx = 0]
    /\ UNCHANGED <<libVars, dataBack, num_stages, executor, weights, ctlDown, ctlUp, data, stage, clock, calls, log, hist, peer>>

OrchSendEstablish ==
    /\ orch.pc = "edc_send"
    /\ ctlDown' = Append2(ctlDown, orch.idx, EstablishDataChannels)
    /\ orch' = AfterStage("edc_sent")
    /\ log' = IF orch.idx + 1 = num_stages
              THEN Append(log, SetupEntry("send_establish_data_channels", "Ok", <<>>))
              ELSE log
    /\ UNCHANGED <<libVars, dataBack, num_stages, executor, weights, ctlUp, data, stage, clock, calls, hist, peer>>

CompleteCall_acceptFirst ==
    /\ orch.pc = "edc_sent"
    /\ orch' = [orch EXCEPT !.pc = "dout_accept", !.idx = 0, !.relays = "running"]
    /\ UNCHANGED <<libVars, dataBack, num_stages, executor, weights, ctlDown, ctlUp, data, stage, clock, calls, log, hist, peer>>

\* complete_data_channels, called after send_establish_data_channels: the relay
\* handles are stored.
CompleteCall ==
    /\ orch.pc = "edc_sent"
    /\ orch' = [orch EXCEPT !.pc = "din_connect", !.idx = 0, !.relays = "running"]
    /\ UNCHANGED <<libVars, dataBack, num_stages, executor, weights, ctlDown, ctlUp, data, stage, clock, calls, log, hist, peer>>

\* data-in as initiator to stage 0.
OrchConnectDataIn ==
    /\ orch.pc = "din_connect"
    /\ data' = Append2(data, 0, HelloData)
    /\ orch' = [orch EXCEPT !.pc = "din_reply"]
    /\ UNCHANGED <<libVars, dataBack, num_stages, executor, weights, ctlDown, ctlUp, stage, clock, calls, log, hist, peer>>

OrchDataInReply ==
    /\ orch.pc = "din_reply"
    /\ dataBack[0] # <<>>
    /\ dataBack' = Pop(dataBack, 0)
    /\ data' = Append2(data, 0, HelloData)
    /\ orch' = [orch EXCEPT !.pc = "dout_accept"]
    /\ UNCHANGED <<libVars, num_stages, executor, weights, ctlDown, ctlUp, stage, clock, calls, log, hist, peer>>

\* data-out as responder to the last stage.
OrchAcceptDataOut ==
    /\ orch.pc = "dout_accept"
    /\ data[num_stages] # <<>>
    /\ data' = Pop(data, num_stages)
    /\ dataBack' = Append2(dataBack, num_stages, HelloData)
    /\ orch' = [orch EXCEPT !.pc = "dout_confirm"]
    /\ UNCHANGED <<libVars, num_stages, executor, weights, ctlDown, ctlUp, stage, clock, calls, log, hist, peer>>

OrchDataOutConfirm ==
    /\ orch.pc = "dout_confirm"
    /\ data[num_stages] # <<>>
    /\ data' = Pop(data, num_stages)
    /\ orch' = [orch EXCEPT !.pc = "dcr_recv", !.idx = 0]
    /\ UNCHANGED <<libVars, dataBack, num_stages, executor, weights, ctlDown, ctlUp, stage, clock, calls, log, hist, peer>>

\* The next stage's message must be DataChannelsReady; after the last one the
\* pipeline is set up.
OrchRecvDataChannelsReady ==
    /\ orch.pc = "dcr_recv"
    /\ ctlUp[orch.idx] # <<>>
    /\ ctlUp' = Pop(ctlUp, orch.idx)
    /\ IF Head(ctlUp[orch.idx]).type # "DataChannelsReady"
       THEN SetupFails("complete_data_channels", "Protocol")
       ELSE IF orch.idx + 1 = num_stages
       THEN /\ log' = Append(log, SetupEntry("complete_data_channels", "Ok", <<>>))
            /\ orch' = IdleOrch
       ELSE /\ log' = log
            /\ orch' = [orch EXCEPT !.idx = @ + 1]
    /\ UNCHANGED <<libVars, dataBack, num_stages, executor, weights, ctlDown, data, stage, clock, calls, hist, peer>>

\* The foreign end completes the handshake of its control channel ...
ForeignHandshake(s) ==
    /\ stage[s].pc = "foreign"
    /\ ctlDown[s] # <<>>
    /\ Head(ctlDown[s]) = HelloDown
    /\ ctlDown' = Pop(ctlDown, s)
    /\ ctlUp' = IF stage[s].pos = 0 THEN Append2(ctlUp, s, HelloUp) ELSE ctlUp
    /\ stage' = [stage EXCEPT ![s].pos = @ + 1]
    /\ UNCHANGED <<libVars, dataBack, num_stages, executor, weights, data, orch, clock, calls, log, hist, peer>>

\* ... and answers Init with a message of its choice, once.
ForeignReply(s) ==
    /\ stage[s].pc = "foreign"
    /\ ctlDown[s] # <<>>
    /\ Head(ctlDown[s]).type = "Init"
    /\ ctlDown' = Pop(ctlDown, s)
    /\ \E msg \in ForeignReplies(s) : ctlUp' = Append2(ctlUp, s, msg)
    /\ stage' = [stage EXCEPT ![s].pc = "foreign_done"]
    /\ UNCHANGED <<libVars, dataBack, num_stages, executor, weights, data, orch, clock, calls, log, hist, peer>>

\* The steps of the orchestrator and of its caller during the set-up.
OrchSetupSteps ==
    \/ \E n \in 0 .. (MaxSetupStages + 1) : InitCall(Transports(n))
    \/ OrchConnectControl
    \/ OrchControlReply
    \/ OrchSendInit
    \/ OrchRecvReady
    \/ OrchSetupClosed
    \/ SendEstablishCall
    \/ OrchSendEstablish
    \/ CompleteCall
    \/ OrchConnectDataIn
    \/ OrchDataInReply
    \/ OrchAcceptDataOut
    \/ OrchDataOutConfirm
    \/ OrchRecvDataChannelsReady

\* The steps of the run of stage s up to its process loop.
StageSetupSteps(s) ==
    \/ StageAcceptControl(s)
    \/ StageControlConfirm(s)
    \/ StageHandleInit(s)
    \/ StageExecutorInit(s)
    \/ StageSendReady(s)
    \/ StageWaitEstablish(s)
    \/ StageAcceptDataIn(s)
    \/ StageDataInConfirm(s)
    \/ StageConnectDataOut(s)
    \/ StageDataOutReply(s)
    \/ StageDataChannelsReady(s)

SetupNext ==
    \/ OrchSetupSteps
    \/ \E s \in Stages : StageSetupSteps(s)
    \/ \E s \in Stages : ForeignHandshake(s)
    \/ \E s \in Stages : ForeignReply(s)

SetupSpec == SetupInit /\ [][SetupNext]_vars

\* The orchestrator and every stage runtime are tasks of the tokio runtime: a
\* task that can take a step is polled.
SetupLive ==
    /\ SetupSpec
    /\ WF_vars(OrchSetupSteps)
    /\ \A s \in 0 .. (MaxSetupStages - 1) : WF_vars(s \in Stages /\ StageSetupSteps(s))

\* ------------------------------------------------------------- the scheduler on its own
\* The pipeline variables while a library function is exercised on its own: no
\* pipeline is constructed.
pipeVars == <<capacity, dataBack, num_stages, executor, weights, ctlDown, ctlUp, data, stage, orch,
              clock, calls, log, hist, peer>>

NoPipeline ==
    /\ num_stages = 0
    /\ capacity = Ample
    /\ dataBack = <<>>
    /\ executor = <<>>
    /\ weights = <<>>
    /\ ctlDown = <<>>
    /\ ctlUp = <<>>
    /\ data = <<>>
    /\ stage = <<>>
    /\ orch = IdleOrch
    /\ clock = 1
    /\ calls = 0
    /\ log = <<>>
    /\ hist = <<>>
    /\ peer = [focus |-> 0, ctl |-> 0, data |-> 0]

\* A caller is about to call generate(num_stages, num_micro_batches).
SchedInit ==
    /\ NoPipeline
    /\ manifest = NoManifest /\ relay = NoRelay /\ tcp = NoTcp
    /\ \E p \in 0 .. MaxSchedStages, m \in 0 .. MaxSchedMB :
          schedule = [NoSchedule EXCEPT !.num_stages = p, !.num_micro_batches = m]

SchedGenerate ==
    /\ schedule.pc = "none"
    /\ schedule' = [schedule EXCEPT
                       !.pc = "generated",
                       !.result = Generate(schedule.num_stages, schedule.num_micro_batches)]
    /\ UNCHANGED <<manifest, relay, tcp, pipeVars>>

\* schedule.stage(stage_idx): Some for the stages of the schedule.
SchedStage(s) ==
    /\ schedule.pc = "generated"
    /\ schedule.result.err = "none"
    /\ s \in DOMAIN schedule.result.stage_schedules
    /\ schedule' = [schedule EXCEPT !.pc = "walk", !.stage_idx = s, !.step = 0, !.forwards = <<>>]
    /\ UNCHANGED <<manifest, relay, tcp, pipeVars>>

\* The micro-batches of the Forward ops of one step, in the order of the step.
RECURSIVE ForwardsOf(_)
ForwardsOf(step_ops) ==
    IF step_ops = <<>> THEN <<>>
    ELSE (IF Head(step_ops).op = "Forward" THEN <<Head(step_ops).micro_batch>> ELSE <<>>)
         \o ForwardsOf(Tail(step_ops))

\* One round of `for step in &schedule.ops`: the inner loop over the ops of the
\* step, which acts on the Forward ops only.
SchedWalk ==
    /\ schedule.pc = "walk"
    /\ LET ops == schedule.result.stage_schedules[schedule.stage_idx]
       IN IF schedule.step < Len(ops)
          THEN schedule' = [schedule EXCEPT
                              !.step = @ + 1,
                              !.forwards = @ \o ForwardsOf(ops[schedule.step + 1])]
          ELSE schedule' = [schedule EXCEPT !.pc = "walked"]
    /\ UNCHANGED <<manifest, relay, tcp, pipeVars>>

SchedNext ==
    \/ SchedGenerate
    \/ \E s \in 0 .. (MaxSchedStages - 1) : SchedStage(s)
    \/ SchedWalk

SchedSpec == SchedInit /\ [][SchedNext]_vars

\* ------------------------------------------------------------- the manifest on its own
MinOf(S) == CHOOSE x \in S : \A y \in S : x <= y

\* ShardManifest::validate, its checks in the order of the code: the first
\* failing one is the error returned.  Position i of the code is element i + 1.
Validate_noStartZero(M) ==
    LET n == Len(M.stages)
        bad == {i \in 1 .. n : M.stages[i].stage_idx # i - 1
                                 \/ M.stages[i].layer_start >= M.stages[i].layer_end}
        gaps == {i \in 1 .. (n - 1) : M.stages[i].layer_end # M.stages[i + 1].layer_start}
    IN IF n = 0 THEN "EmptyStages"
       ELSE IF bad # {}
            THEN (IF M.stages[MinOf(bad)].stage_idx # MinOf(bad) - 1
                  THEN "WrongStageIndex" ELSE "InvalidLayerRange")
       ELSE IF gaps # {} THEN "NonContiguousLayers"
       ELSE IF M.stages[n].layer_end # M.total_layers THEN "LayerCountMismatch"
       ELSE "Ok"

Validate(M) ==
    LET n == Len(M.stages)
        bad == {i \in 1 .. n : M.stages[i].stage_idx # i - 1
                                 \/ M.stages[i].layer_start >= M.stages[i].layer_end}
        gaps == {i \in 1 .. (n - 1) : M.stages[i].layer_end # M.stages[i + 1].layer_start}
    IN IF n = 0 THEN "EmptyStages"
       ELSE IF bad # {}
            THEN (IF M.stages[MinOf(bad)].stage_idx # MinOf(bad) - 1
                  THEN "WrongStageIndex" ELSE "InvalidLayerRange")
       ELSE IF gaps # {} THEN "NonContiguousLayers"
       ELSE IF M.stages[1].layer_start # 0 THEN "LayerStartNotZero"
       ELSE IF M.stages[n].layer_end # M.total_layers THEN "LayerCountMismatch"
       ELSE "Ok"

StageSpecs ==
    [stage_idx : 0 .. (MaxManifestStages - 1), layer_start : 0 .. MaxLayer, layer_end : 0 .. MaxLayer]

\* Any manifest a caller may build or parse.
ManifestInit ==
    /\ NoPipeline
    /\ schedule = NoSchedule /\ relay = NoRelay /\ tcp = NoTcp
    /\ \E n \in 0 .. MaxManifestStages :
          \E ss \in [1 .. n -> StageSpecs], total \in 0 .. MaxLayer :
              manifest = [NoManifest EXCEPT !.total_layers = total, !.stages = ss]

ManifestValidate ==
    /\ manifest.result = "none"
    /\ manifest' = [manifest EXCEPT !.result = Validate(manifest)]
    /\ UNCHANGED <<schedule, relay, tcp, pipeVars>>

\* Orchestrator::new: validate()?, then the orchestrator without connections.
OrchestratorNew ==
    /\ manifest.orchestrator = "none"
    /\ manifest' = [manifest EXCEPT
                       !.orchestrator = IF Validate(manifest) = "Ok" THEN "constructed"
                                        ELSE Validate(manifest)]
    /\ UNCHANGED <<schedule, relay, tcp, pipeVars>>

ManifestNext == ManifestValidate \/ OrchestratorNew

ManifestSpec == ManifestInit /\ [][ManifestNext]_vars

\* ------------------------------------------------------------- a relay link on its own
\* start_relay_link has spawned its two tasks.  Direction "u2d" copies what the
\* upstream peer writes to the downstream peer, "d2u" the reverse.  The copy
\* of tokio reads what is available into its buffer and writes the buffer out
\* from its front; a read of 0 bytes (the writer is gone and the transport is
\* drained) ends it once the buffer is written out.
Directions == {"u2d", "d2u"}

RelayBytes == {0, 1}

RelayInit ==
    /\ NoPipeline
    /\ schedule = NoSchedule /\ manifest = NoManifest /\ tcp = NoTcp
    /\ relay = NoRelay

\* The peer on the source side of direction d writes one byte.
RelayPeerWrite(d, b) ==
    /\ ~relay[d].eof
    /\ Len(relay[d].written) < MaxRelayBytes
    /\ relay' = [relay EXCEPT ![d].written = Append(@, b), ![d].src = Append(@, b)]
    /\ UNCHANGED <<schedule, manifest, tcp, pipeVars>>

\* The peer on the source side of direction d drops its write half.
RelayPeerClose(d) ==
    /\ ~relay[d].eof
    /\ relay' = [relay EXCEPT ![d].eof = TRUE]
    /\ UNCHANGED <<schedule, manifest, tcp, pipeVars>>

\* copy: a read of k >= 1 bytes from the source into the buffer.
RelayCopyRead(d, k) ==
    /\ ~relay.aborted /\ ~relay[d].done
    /\ k \in 1 .. Len(relay[d].src)
    /\ relay' = [relay EXCEPT
                    ![d].buf = @ \o SubSeq(relay[d].src, 1, k),
                    ![d].src = SubSeq(@, k + 1, Len(@))]
    /\ UNCHANGED <<schedule, manifest, tcp, pipeVars>>

\* copy: a write of k >= 1 bytes of the buffer to the destination.
RelayCopyWrite_lastFirst(d, k) ==
    /\ ~relay.aborted /\ ~relay[d].done
    /\ k \in 1 .. Len(relay[d].buf)
    /\ relay' = [relay EXCEPT
                    ![d].dst = @ \o SubSeq(relay[d].buf, Len(relay[d].buf) - k + 1,
                                            Len(relay[d].buf)),
                    ![d].buf = SubSeq(@, 1, Len(@) - k)]
    /\ UNCHANGED <<schedule, manifest, tcp, pipeVars>>

RelayCopyWrite(d, k) ==
    /\ ~relay.aborted /\ ~relay[d].done
    /\ k \in 1 .. Len(relay[d].buf)
    /\ relay' = [relay EXCEPT
                    ![d].dst = @ \o SubSeq(relay[d].buf, 1, k),
                    ![d].buf = SubSeq(@, k + 1, Len(@))]
    /\ UNCHANGED <<schedule, manifest, tcp, pipeVars>>

\* copy: the read returns 0 bytes and the buffer is written out: the task
\* returns the number of bytes copied.
RelayCopyEof(d) ==
    /\ ~relay.aborted /\ ~relay[d].done
    /\ relay[d].eof /\ relay[d].src = <<>> /\ relay[d].buf = <<>>
    /\ relay' = [relay EXCEPT ![d].done = TRUE]
    /\ UNCHANGED <<schedule, manifest, tcp, pipeVars>>

\* RelayHandle::abort: both tasks stop at their next await.
RelayAbort ==
    /\ ~relay.aborted
    /\ relay' = [relay EXCEPT !.aborted = TRUE]
    /\ UNCHANGED <<schedule, manifest, tcp, pipeVars>>

RelayNext ==
    \/ \E d \in Directions, b \in RelayBytes : RelayPeerWrite(d, b)
    \/ \E d \in Directions : RelayPeerClose(d)
    \/ \E d \in Directions, k \in 1 .. MaxRelayBytes : RelayCopyRead(d, k)
    \/ \E d \in Directions, k \in 1 .. MaxRelayBytes : RelayCopyWrite(d, k)
    \/ \E d \in Directions : RelayCopyEof(d)
    \/ RelayAbort

RelaySpec == RelayInit /\ [][RelayNext]_vars

\* ------------------------------------------------------------- connect_tcp_retry on its own
\* connect_tcp_retry(addr, policy) has been called; a listener may or may not
\* be bound to addr, and may come and go while the call runs.
RetryInit ==
    /\ NoPipeline
    /\ schedule = NoSchedule /\ manifest = NoManifest /\ relay = NoRelay
    /\ \E r \in 0 .. MaxRetries, l \in BOOLEAN :
          tcp = [NoTcp EXCEPT !.max_retries = r, !.listening = l, !.pc = "connect"]

\* One round of the loop up to its next await: TcpStream::connect, which
\* succeeds when a listener is bound, and the arm of the match it selects.
TcpConnect_reportsIndex ==
    /\ tcp.pc = "connect"
    /\ IF tcp.listening
       THEN tcp' = [tcp EXCEPT !.pc = "ok", !.connects = @ + 1]
       ELSE IF tcp.attempt < tcp.max_retries
            THEN tcp' = [tcp EXCEPT !.pc = "sleep", !.connects = @ + 1, !.failed = @ + 1]
            ELSE tcp' = [tcp EXCEPT !.pc = "err", !.connects = @ + 1, !.failed = @ + 1,
                                    !.reported = tcp.attempt]
    /\ UNCHANGED <<schedule, manifest, relay, pipeVars>>

TcpConnect ==
    /\ tcp.pc = "connect"
    /\ IF tcp.listening
       THEN tcp' = [tcp EXCEPT !.pc = "ok", !.connects = @ + 1]
       ELSE IF tcp.attempt < tcp.max_retries
            THEN tcp' = [tcp EXCEPT !.pc = "sleep", !.connects = @ + 1, !.failed = @ + 1]
            ELSE tcp' = [tcp EXCEPT !.pc = "err", !.connects = @ + 1, !.failed = @ + 1,
                                    !.reported = tcp.attempt + 1]
    /\ UNCHANGED <<schedule, manifest, relay, pipeVars>>

\* The sleep of the retry arm is over: the next round of the loop.
TcpSleepDone ==
    /\ tcp.pc = "sleep"
    /\ tcp' = [tcp EXCEPT !.pc = "connect", !.attempt = @ + 1]
    /\ UNCHANGED <<schedule, manifest, relay, pipeVars>>

\* Another task binds a listener to the address.
ListenerBind ==
    /\ ~tcp.listening
    /\ tcp.pc \in {"connect", "sleep"}
    /\ tcp' = [tcp EXCEPT !.listening = TRUE]
    /\ UNCHANGED <<schedule, manifest, relay, pipeVars>>

\* The listener is dropped.
ListenerDrop ==
    /\ tcp.listening
    /\ tcp.pc \in {"connect", "sleep"}
    /\ tcp' = [tcp EXCEPT !.listening = FALSE]
    /\ UNCHANGED <<schedule, manifest, relay, pipeVars>>

RetryNext == TcpConnect \/ TcpSleepDone \/ ListenerBind \/ ListenerDrop

RetrySpec == RetryInit /\ [][RetryNext]_vars

\* ------------------------------------------------------------- the pipeline under a wall clock
\* SystemTime::now() is the wall clock of the host: it is not monotonic.  A
\* step of the clock back (a time synchronisation, an operator) makes it
\* return later a value it has returned before.
ClockSetBack ==
    /\ orch.pc = "idle"
    /\ clock' \in 1 .. (clock - 1)
    /\ UNCHANGED <<libVars, dataBack, num_stages, executor, weights, ctlDown, ctlUp, data, stage,
                   orch, calls, log, hist, peer>>

\* A pipeline of one stage.
ClockInit == Init /\ num_stages = 1

ClockNext == Next \/ ClockSetBack

ClockSpec == ClockInit /\ [][ClockNext]_vars

\* ------------------------------------------------------------- the pipeline on bounded data links
\* The pipeline of Init on transports that hold a bounded number of messages
\* (a duplex of a given size, a socket buffer): a send to a full link is
\* Pending until its reader takes a message.  The executors never fail and
\* every request is within max_seq_len.
MaxCapacity == 2

BoundedInit ==
    /\ LibIdle
    /\ capacity \in 1 .. MaxCapacity
    /\ num_stages \in 1 .. MaxStages
    /\ dataBack = [i \in 0 .. num_stages |-> <<>>]
    /\ executor = [s \in 0 .. (num_stages - 1) |-> "identity"]
    /\ weights = [s \in 0 .. (num_stages - 1) |-> Loaded]
    /\ ctlDown = [s \in 0 .. (num_stages - 1) |-> <<>>]
    /\ ctlUp = [s \in 0 .. (num_stages - 1) |-> <<>>]
    /\ data = [i \in 0 .. num_stages |-> <<>>]
    /\ stage = [s \in 0 .. (num_stages - 1) |-> IdleStage]
    /\ orch = IdleOrch
    /\ clock = 1
    /\ calls = 0
    /\ log = <<>>
    /\ hist = [s \in 0 .. (num_stages - 1) |-> SetUpHist]
    /\ peer = [focus |-> 0, ctl |-> 0, data |-> 0]

\* The steps of infer_inner after the call, short of its timer.
BoundedOrchSteps ==
    \/ OrchSendStart
    \/ OrchPush
    \/ OrchRecvOutput
    \/ OrchCollectDone

\* The steps of stage s on a request that succeeds.
BoundedStageSteps(s) ==
    \/ StageStartRequest(s)
    \/ StageRecvData(s)
    \/ StageForward(s)
    \/ StageSendData(s)
    \/ StageReportDone(s)

BoundedNext ==
    \/ \E m \in 1 .. MaxMB, n \in 1 .. MaxTensors : InferCall(m, n, max_seq_len)
    \/ OrchSendStart
    \/ OrchPush
    \/ OrchRecvOutput
    \/ OrchCollectDone
    \/ \E s \in Stages : StageStartRequest(s)
    \/ \E s \in Stages : StageRecvData(s)
    \/ \E s \in Stages : StageForward(s)
    \/ \E s \in Stages : StageSendData(s)
    \/ \E s \in Stages : StageReportDone(s)

BoundedSpec == BoundedInit /\ [][BoundedNext]_vars

\* The runtime polls a task that can make a step: infer_inner and the run of
\* every stage are tasks of their own.
BoundedLive ==
    /\ BoundedSpec
    /\ WF_vars(BoundedOrchSteps)
    /\ \A s \in 0 .. (MaxStages - 1) : WF_vars(s \in Stages /\ BoundedStageSteps(s))

\* ------------------------------------------------------------- properties
Last(q) == q[Len(q)]

AllIdentity == \A s \in Stages : executor[s] = "identity"

\* Stage s sends a control message of type t in this step.
Sends(s, t) == Len(ctlUp'[s]) = Len(ctlUp[s]) + 1 /\ Last(ctlUp'[s]).type = t

\* What send_tensors writes for the forward calls fwd, each returning its inputs.
Written(fwd) ==
    FlattenSeqs([i \in 1 .. Len(fwd) |->
                    [j \in 1 .. Len(fwd[i].inputs) |-> Tensor(fwd[i].inputs[j])] \o <<END>>])

\* executor.init fails for stage s, or its manifest declares weight hashes and
\* the executor's differ from them (in count or at some place).
BadWeights(s) ==
    \/ ~weights[s].init_ok
    \/ weights[s].declared # <<>> /\ weights[s].declared # weights[s].actual

\* ------------------------------------------------------------- properties of infer
\* The call the tensor named n was given to, and an infer call's request id:
\* the c-th call reads the clock at c.
CallOf(n) == n \div 100

\* Entry i of the log is an infer call with at least one micro-batch and an
\* accepted seq_len that did not run into infer_timeout.
ValidInfer(i) ==
    /\ log[i].call = "infer"
    /\ Len(log[i].input) >= 1
    /\ log[i].seq_len <= max_seq_len
    /\ log[i].kind # "Timeout"

\* Entry i returned the caller's own tensors, micro-batch by micro-batch.
OwnOutputs(i) == log[i].kind = "Ok" /\ log[i].outputs = log[i].input

\* The Orchestrator struct holds config, manifest, stages, relay_handles,
\* data_in and data_out: no taint flag, and no call sets or reads one.
is_tainted == FALSE

\* C1: with identity executors every infer call with m >= 1 micro-batches that
\* returns successfully returns m output micro-batches, output micro-batch i
\* holding the tensors of input micro-batch i in the same order.
C1_OrderPreserved ==
    AllIdentity =>
        \A i \in 1 .. Len(log) :
            (log[i].call = "infer" /\ log[i].kind = "Ok" /\ Len(log[i].input) >= 1)
            => /\ Len(log[i].outputs) = Len(log[i].input)
               /\ \A b \in 1 .. Len(log[i].input) : log[i].outputs[b] = log[i].input[b]

\* No call so far ran into infer_timeout.
NoTimeoutSoFar == \A i \in 1 .. Len(log) : log[i].kind # "Timeout"

\* C2: with identity executors, in any sequence of infer calls (none of them
\* cut short by infer_timeout) no tensor and no control reply of an earlier
\* request is consumed as part of a later one: the tensors a stage has read for
\* its request and the tensors the orchestrator has collected for its call
\* were given to that very call, and a RequestDone or RequestError the
\* orchestrator takes during infer carries the call's id.
C2_NoCrossRequest ==
    [][(AllIdentity /\ NoTimeoutSoFar') =>
         /\ \A s \in Stages :
               stage'[s].pc = "run" =>
                  \A j \in 1 .. Len(stage'[s].inputs) :
                      CallOf(stage'[s].inputs[j]) = stage'[s].request_id
         /\ orch'.pc \in InferPcs =>
               /\ \A j \in 1 .. Len(orch'.cur) : CallOf(orch'.cur[j]) = orch'.request_id
               /\ \A b \in 1 .. Len(orch'.outputs) :
                     \A j \in 1 .. Len(orch'.outputs[b]) :
                         CallOf(orch'.outputs[b][j]) = orch'.request_id
         /\ (orch.pc \in {"collect_ok", "collect_err"}
             /\ Len(ctlUp'[orch.idx]) < Len(ctlUp[orch.idx]))
            => Head(ctlUp[orch.idx]).id = orch.request_id]_vars

\* C3: an infer call during which the executor of some stage failed a forward
\* of the call's request returns RequestFailed (as long as infer_timeout does
\* not cut the call short): never a successful result, never Protocol.
C3_ExecutorFailureIsRequestFailed ==
    [][(/\ Len(log') = Len(log) + 1
        /\ Last(log').call = "infer"
        /\ Last(log').kind # "Timeout"
        /\ \E s \in Stages :
              /\ hist[s].request_id = Last(log').request_id
              /\ \E i \in 1 .. Len(hist[s].fwd) : ~hist[s].fwd[i].ok)
       => Last(log').kind = "RequestFailed"]_vars

\* C4: an infer call whose seq_len exceeds max_seq_len returns RequestFailed,
\* and the infer call that follows it with an accepted seq_len (identity
\* executors, no timeout) succeeds and returns the outputs of its own inputs.
C4_SeqLenRejectionLeavesUsable ==
    /\ \A i \in 1 .. Len(log) :
          (i = 1 /\ log[i].call = "infer" /\ Len(log[i].input) >= 1
           /\ log[i].seq_len > max_seq_len /\ log[i].kind # "Timeout")
          => log[i].kind = "RequestFailed"
    /\ \A i \in 2 .. Len(log) :
          (/\ AllIdentity
           /\ log[i - 1].call = "infer"
           /\ Len(log[i - 1].input) >= 1
           /\ log[i - 1].seq_len > max_seq_len
           /\ log[i - 1].kind = "RequestFailed"
           /\ ValidInfer(i))
          => OwnOutputs(i)

\* C5: after an infer call returned Timeout and every stage has delivered its
\* terminal control reply (every stage is settled when the next call is made),
\* the orchestrator is not tainted and a following infer call with an adequate
\* infer_timeout succeeds and returns the outputs of its own inputs.
C5_InferAfterDrainedTimeout ==
    \A i \in 2 .. Len(log) :
        (/\ AllIdentity
         /\ log[i - 1].call = "infer"
         /\ log[i - 1].kind = "Timeout"
         /\ log[i - 1].seq_len <= max_seq_len
         /\ log[i].settled
         /\ ValidInfer(i))
        => ~is_tainted /\ OwnOutputs(i)

\* C6: when infer returns Timeout while some stage has not delivered its
\* terminal control reply for the request (and goes on not delivering it), the
\* orchestrator is tainted.
C6_UndrainedTimeoutTaints ==
    \A i \in 1 .. Len(log) :
        (log[i].call = "infer" /\ log[i].kind = "Timeout" /\ log[i].undrained)
        => is_tainted

\* The drain of some timed-out infer call failed: the orchestrator is to be
\* tainted from then on.
TaintDue ==
    \E i \in 1 .. Len(log) :
        log[i].call = "infer" /\ log[i].kind = "Timeout" /\ log[i].undrained

\* C7: once the orchestrator is to be tainted it stays so, and every later
\* infer and health_check call returns Tainted at once: the step that makes
\* the call returns it, and the orchestrator sends no message to any stage.
C7_TaintedIsTerminal ==
    [][TaintDue =>
         /\ TaintDue'
         /\ calls' = calls + 1 => (Len(log') = Len(log) + 1 /\ Last(log').kind = "Tainted")
         /\ \A s \in Stages : Len(ctlDown'[s]) <= Len(ctlDown[s])]_vars

\* C8: a health_check made after an infer call that timed out, once every stage
\* has delivered its terminal reply for it, succeeds (unless it times out
\* itself): the stale RequestDone / RequestError messages are skipped.
C8_HealthCheckAfterTimeout ==
    \A i \in 2 .. Len(log) :
        (/\ log[i - 1].call = "infer"
         /\ log[i - 1].kind = "Timeout"
         /\ log[i].call = "health_check"
         /\ log[i].settled
         /\ log[i].kind # "Timeout")
        => log[i].kind = "Ok"

\* ------------------------------------------------------------- properties of the stage's control handling
\* Stage s takes the control message at the head of its channel in this step.
Takes(s, t) ==
    /\ ctlDown[s] # <<>>
    /\ Head(ctlDown[s]).type = t
    /\ ctlDown'[s] = Tail(ctlDown[s])

\* Stage s is past the Ready of its control phase.
SentReady(s) ==
    stage[s].pc \notin {"ctl_accept", "ctl_confirm", "init_wait", "exec_init", "send_ready"}

\* C11: a stage that has sent Ready answers every Ping{seq} it takes off its
\* control channel with Pong{seq}: waiting for EstablishDataChannels, idle in
\* the process loop, or with a request in flight, whose processing is neither
\* waited for nor disturbed (its state, its data and its forwards stay as they
\* are).
C11_PingAnswered ==
    [][\A s \in Stages :
          (Takes(s, "Ping") /\ SentReady(s))
          => /\ stage[s].pc \in {"wait_edc", "loop", "run"}
             /\ ctlUp'[s] = Append(ctlUp[s], Pong(Head(ctlDown[s]).id))
             /\ stage'[s] = stage[s]
             /\ hist'[s] = hist[s]
             /\ data' = data]_vars

\* The stage's second control message was a Ping, taken and answered while the
\* forward of request 1 was awaited; the request is still in flight.
C11_Witness ==
    \E s \in Stages :
       /\ stage[s].pc = "run"
       /\ stage[s].ph = "fwd"
       /\ stage[s].request_id = 1
       /\ ctlUp[s] = <<Pong(2)>>

\* C12: an AbortRequest taken while request R is in flight cancels R: the stage
\* makes no further forward call for R, sends ERR and then one RequestError
\* with R's request_id whose text holds "aborted" and the abort's reason, and
\* is back in its process loop.
C12_AbortInFlight ==
    [][\A s \in Stages :
          /\ (Takes(s, "AbortRequest") /\ stage[s].pc = "run")
             => /\ stage'[s].pc = "fail_err"
                /\ stage'[s].request_id = stage[s].request_id
                /\ Contains(stage'[s].err, "aborted: ")
                /\ Contains(stage'[s].err, Head(ctlDown[s]).reason)
                /\ hist'[s] = hist[s]
          /\ stage[s].pc \in {"fail_err", "fail_rep"}
             => /\ hist'[s].fwd = hist[s].fwd
                /\ stage'[s].pc \in {stage[s].pc, "fail_rep", "loop"}
                /\ stage'[s].pc # "loop"
                   => stage'[s].err = stage[s].err /\ ctlUp'[s] = ctlUp[s]
                /\ (stage[s].pc = "fail_rep" /\ stage'[s].pc = "loop")
                   => ctlUp'[s] = Append(ctlUp[s],
                                         RequestError(stage[s].request_id, stage[s].err))
                /\ (stage[s].pc = "fail_err" /\ stage'[s] # stage[s])
                   => stage'[s].pc = "fail_rep"]_vars

\* Request 1 was aborted after its first forward, with the reason "cancelled",
\* and the stage has reported it and is idle again.
C12_Witness ==
    \E s \in Stages :
       /\ stage[s].pc = "loop"
       /\ hist[s].request_id = 1
       /\ Len(hist[s].fwd) = 1
       /\ ctlUp[s] = <<RequestError(1, AbortedText("cancelled"))>>

\* C13: a Shutdown taken while a request is in flight cancels it: the stage
\* replies ShuttingDown with its own stage_idx, its run returns Ok, and it
\* makes no forward call and sends nothing from then on.
C13_ShutdownInFlight ==
    [][\A s \in Stages :
          /\ (Takes(s, "Shutdown") /\ stage[s].pc = "run")
             => /\ ctlUp'[s] = Append(ctlUp[s], ShuttingDown(s))
                /\ stage'[s].pc = "exited"
                /\ hist'[s] = hist[s]
                /\ data' = data
          /\ stage[s].pc = "exited"
             => /\ stage'[s] = stage[s]
                /\ hist'[s] = hist[s]
                /\ ctlUp'[s] = ctlUp[s]
                /\ Len(data'[s + 1]) <= Len(data[s + 1])
                /\ Len(ctlDown'[s]) >= Len(ctlDown[s])]_vars

\* Request 1 of two micro-batches was shut down after its first forward.
C13_Witness ==
    \E s \in Stages :
       /\ stage[s].pc = "exited"
       /\ hist[s].request_id = 1
       /\ Len(hist[s].fwd) = 1
       /\ hist[s].fwd[1].ok
       /\ ctlUp[s] = <<ShuttingDown(s)>>

\* The next poll of process_request returns: the schedule cannot be generated,
\* ERR is the next message of data-in, or the END that is written next is the
\* last of the last forward.
CompletionReady(s) ==
    /\ stage[s].pc = "run"
    /\ \/ stage[s].ph = "sched"
       \/ stage[s].ph = "recv" /\ data[s] # <<>> /\ Head(data[s]).k = "ERR"
       \/ /\ stage[s].ph = "send"
          /\ Tail(stage[s].out) = <<>>
          /\ NextForward(stage[s].ops, stage[s].pos + 1) > Len(stage[s].ops)

\* C14: when the completion of the request in flight and a control message are
\* ready together, completion wins: the request ends with its own outcome, it
\* is not cancelled by an AbortRequest or a Shutdown that is ready as well.
C14_CompletionWins ==
    [][\A s \in Stages :
          (CompletionReady(s) /\ ctlDown[s] # <<>>)
          => /\ stage'[s].pc # "exited"
             /\ ~Contains(stage'[s].err, "aborted: ")]_vars

\* C15: an AbortRequest taken while no request is in flight is ignored: the
\* stage sends nothing on its control channel or its data-out and stays as it
\* is, in its process loop.
C15_IdleAbortIgnored ==
    [][\A s \in Stages :
          (Takes(s, "AbortRequest") /\ stage[s].pc \notin {"run", "init_wait", "wait_edc"})
          => /\ stage[s].pc = "loop"
             /\ stage'[s] = stage[s]
             /\ ctlUp' = ctlUp
             /\ data' = data
             /\ hist' = hist]_vars

\* The only control message the stage was sent, in its process loop, was an
\* AbortRequest; it is taken, nothing was sent, the stage is in its loop.
C15_Witness ==
    \E s \in Stages :
       /\ peer.focus = s
       /\ peer.ctl = 1
       /\ peer.data = 0
       /\ ctlDown[s] = <<>>
       /\ ctlUp[s] = <<>>
       /\ data[s + 1] = <<>>
       /\ stage[s].pc = "loop"

\* ------------------------------------------------------------- properties of shutdown and of infer's edges
\* Every call so far returned Ok: nothing of an earlier call is left anywhere.
AllOkSoFar == \A i \in 1 .. Len(log) : log[i].kind = "Ok"

C18_EmptyInferTouchesNothing ==
    [][/\ (calls' = calls + 1 /\ orch'.pc = "start")
          => orch'.num_micro_batches >= 1 /\ orch'.input # <<>>
       /\ (/\ Len(log') = Len(log) + 1
           /\ Last(log').call = "infer"
           /\ Last(log').input = <<>>)
          => /\ calls' = calls + 1
             /\ Last(log').kind = "Ok"
             /\ Last(log').outputs = <<>>
             /\ ctlDown' = ctlDown
             /\ ctlUp' = ctlUp
             /\ data' = data
             /\ stage' = stage]_vars

\* An infer call without micro-batches has returned on an untouched pipeline.
C18_Witness ==
    /\ Len(log) = 1
    /\ log[1].call = "infer"
    /\ log[1].input = <<>>
    /\ log[1].kind = "Ok"
    /\ \A s \in Stages : ctlDown[s] = <<>> /\ ctlUp[s] = <<>> /\ stage[s] = IdleStage
    /\ \A i \in 0 .. num_stages : data[i] = <<>>

\* C19: when infer has read ERR from data-out (and no call has timed out), it
\* reads the control reply of every stage for the request before it returns:
\* at its return no stage still owes its RequestDone / RequestError for the
\* request and none lies unread on a control channel.
C19_AllRepliesReadOnErr ==
    [][(/\ orch.pc = "collect_err"
        /\ Len(log') = Len(log) + 1
        /\ NoTimeoutSoFar')
       => \A s \in Stages :
             /\ ~Undelivered(s, orch.request_id)
             /\ \A k \in 1 .. Len(ctlUp'[s]) :
                   ~(/\ ctlUp'[s][k].type \in {"RequestDone", "RequestError"}
                     /\ ctlUp'[s][k].id = orch.request_id)]_vars

\* C20: a stage whose executor.init fails, or whose executor's weight hashes
\* differ from the hashes its manifest declares, never sends Ready: its control
\* phase ends with an error at that point and the stage has sent nothing on
\* its control channel.
C20_NoReadyOnBadInit ==
    [][\A s \in Stages :
          BadWeights(s)
          => /\ ctlUp'[s] = <<>>
             /\ (stage[s].pc = "exec_init" /\ stage'[s] # stage[s])
                => stage'[s].pc = "crashed" /\ stage'[s].err # <<>>
             /\ stage[s].pc = "crashed" => stage'[s] = stage[s]]_vars

\* The control phase of a stage has ended on a hash that differs at the second
\* place only; nothing was sent.
C20_Witness ==
    \E s \in Stages :
       /\ weights[s].declared = <<1, 2>>
       /\ weights[s].actual = <<1, 1>>
       /\ stage[s].pc = "crashed"
       /\ Contains(stage[s].err, "hash mismatch")
       /\ ctlUp[s] = <<>>

\* ------------------------------------------------------------- properties of the set-up
\* Stage s takes the message at the head of its control channel in this step.
TakesControl(s) == ctlDown[s] # <<>> /\ ctlDown'[s] = Tail(ctlDown[s])

\* run has returned a protocol error for stage s.
ProtocolError(st) == st.pc = "crashed" /\ Contains(st.err, "protocol error: ")

\* C21: in its control phase a stage accepts one message sequence only.  The
\* first message it takes must be Init, anything else ends the control phase
\* with a protocol error; until Ready is sent it takes no further message;
\* after Ready a Ping is answered with Pong of the same seq and the wait goes
\* on, EstablishDataChannels ends the control phase, and any other message
\* (a second Init among them) ends it with a protocol error.
C21_ControlPhaseSequence ==
    [][\A s \in Stages :
          /\ (stage[s].pc = "init_wait" /\ TakesControl(s))
             => /\ ctlUp'[s] = ctlUp[s]
                /\ IF Head(ctlDown[s]).type = "Init"
                   THEN stage'[s].pc = "exec_init"
                   ELSE ProtocolError(stage'[s])
          /\ stage[s].pc \in {"exec_init", "send_ready"} => ~TakesControl(s)
          /\ (stage[s].pc = "wait_edc" /\ TakesControl(s))
             => IF Head(ctlDown[s]).type = "Ping"
                THEN /\ ctlUp'[s] = Append(ctlUp[s], Pong(Head(ctlDown[s]).id))
                     /\ stage'[s] = stage[s]
                ELSE /\ ctlUp'[s] = ctlUp[s]
                     /\ IF Head(ctlDown[s]).type = "EstablishDataChannels"
                        THEN stage'[s].pc = "accept_in"
                        ELSE ProtocolError(stage'[s])]_vars

\* A stage took Init, then a Ping, then a second Init: it had sent Ready and
\* Pong, and its control phase has failed with a protocol error.
C21_Witness ==
    \E s \in Stages :
       /\ peer.ctl = 3
       /\ ctlDown[s] = <<>>
       /\ ctlUp[s] = <<Ready(s), Pong(2)>>
       /\ ProtocolError(stage[s])
       /\ Contains(stage[s].err, "expected EstablishDataChannels")

\* Init has been sent to stage s.
InitSent(s) ==
    \/ \E k \in 1 .. Len(ctlDown[s]) : ctlDown[s][k].type = "Init"
    \/ stage[s].pc \notin {"ctl_accept", "ctl_confirm", "init_wait", "foreign"}

\* init reads a stage's reply in this step (a message that is no handshake frame).
ReadsReply(s) ==
    /\ orch.pc = "init_recv"
    /\ ctlUp[s] # <<>>
    /\ ctlUp'[s] = Tail(ctlUp[s])

\* C22: init wants one control transport per manifest stage: with another
\* number it returns a protocol error and has sent nothing.  Otherwise Init goes
\* to the stages in index order, all of them before any reply is read; then one
\* reply per stage is read, in index order; a reply that is not Ready makes init
\* return a protocol error, and init returns Ok on the Ready of the last stage.
C22_InitSequence ==
    [][/\ (orch.pc = "new" /\ orch'.pc # "new")
          => /\ ctlDown' = ctlDown
             /\ IF Len(orch'.input) = num_stages
                THEN orch'.pc = "ctl_connect" /\ log' = log
                ELSE /\ orch'.pc = "failed"
                     /\ log' = <<SetupEntry("init", "Protocol", orch'.input)>>
       /\ \A s \in Stages :
             /\ (~InitSent(s) /\ InitSent(s)')
                => /\ \A j \in Stages : InitSent(j) <=> j < s
                   /\ log = <<>>
             /\ ReadsReply(s)
                => /\ \A j \in Stages : InitSent(j)
                   /\ s = orch.idx
                   /\ \A j \in Stages : j # s => ctlUp'[j] = ctlUp[j]
                   /\ IF Head(ctlUp[s]).type # "Ready"
                      THEN /\ orch'.pc = "failed"
                           /\ log' = <<SetupEntry("init", "Protocol", orch.input)>>
                      ELSE IF s + 1 = num_stages
                      THEN /\ orch'.pc = "inited"
                           /\ log' = <<SetupEntry("init", "Ok", orch.input)>>
                      ELSE /\ orch'.pc = "init_recv"
                           /\ orch'.idx = s + 1
                           /\ log' = log]_vars

\* init of a pipeline of three stages has read Ready from stage 0, then a
\* Pong from the far end of transport 1, and has returned a protocol error;
\* stage 2's Ready is unread.
C22_Witness ==
    /\ num_stages = 3
    /\ log = <<SetupEntry("init", "Protocol", Transports(3))>>
    /\ orch.pc = "failed"
    /\ stage[1].pc = "foreign_done"
    /\ ctlUp[0] = <<>>
    /\ ctlUp[1] = <<>>
    /\ ctlUp[2] = <<Ready(2)>>

\* init has been called with one control transport per stage, and the far end
\* of every transport is a stage runtime.
SetupBegun ==
    /\ orch.pc = "ctl_connect"
    /\ orch.idx = 0
    /\ \A s \in Stages : stage[s].pc = "ctl_accept"

\* complete_data_channels has returned Ok: every DataChannelsReady is collected
\* and every stage is in its process loop.
SetupDone ==
    /\ orch = IdleOrch
    /\ Len(log) = 3
    /\ log[3] = SetupEntry("complete_data_channels", "Ok", <<>>)
    /\ \A s \in Stages : stage[s].pc = "loop" /\ ctlUp[s] = <<>> /\ ctlDown[s] = <<>>

\* C24 as stated: for 1 to MaxSetupStages stages, when the init of every
\* executor succeeds, the set-up (init, send_establish_data_channels,
\* complete_data_channels against the runs of all stages) eventually completes.
C24_SetupCompletes ==
    (SetupBegun /\ \A s \in Stages : weights[s].init_ok) ~> SetupDone

\* C24, amended: for 1 to MaxSetupStages stages, when the init of every
\* executor succeeds and the weight hashes of every executor agree with the
\* hashes its manifest declares (or it declares none), the set-up eventually
\* completes with every DataChannelsReady collected: the stages' order
\* accept-data-in-then-dial-data-out and the orchestrator's order
\* dial-data-in-then-accept-data-out never wait for each other.
C24_SetupCompletesWhenLoaded ==
    (SetupBegun /\ \A s \in Stages : ~BadWeights(s)) ~> SetupDone

\* A pipeline of three stages is set up, one of them with verified hashes.
C24_Witness ==
    /\ num_stages = 3
    /\ SetupDone
    /\ weights[1].declared = <<1>>
    /\ \A s \in Stages : hist[s].setup = SetUpHist.setup

\* Stage s takes a StartRequest and sets out on it (to run it or to reject it).
HandlesStart(s) ==
    /\ Takes(s, "StartRequest")
    /\ stage[s].pc # "run"
    /\ stage'[s].pc \in {"run", "reject_err"}

\* C23: a stage keeps the phase order control-then-data.  When it sends
\* DataChannelsReady it has, in this order, received EstablishDataChannels,
\* established data-in (as responder) and established data-out (as initiator),
\* and nothing else; it touches no data link before EstablishDataChannels; and
\* it sets out on a StartRequest only after it has sent DataChannelsReady.
C23_ControlThenData ==
    [][\A s \in Stages :
          /\ Sends(s, "DataChannelsReady")
             => /\ hist[s].setup = <<"EstablishDataChannels", "data_in", "data_out">>
                /\ Last(ctlUp'[s]) = DataChannelsReady(s)
          /\ (\/ Len(data'[s + 1]) > Len(data[s + 1])
              \/ Len(dataBack'[s]) > Len(dataBack[s])
              \/ stage'[s].inputs # stage[s].inputs)
             => Contains(hist[s].setup, "EstablishDataChannels")
          /\ HandlesStart(s) => Contains(hist[s].setup, "DataChannelsReady")]_vars

\* A stage that awaited Init has been set up and has set out on request 3: it
\* had sent Ready and then DataChannelsReady, and nothing else.
C23_Witness ==
    \E s \in Stages :
       /\ ctlUp[s] = <<Ready(s), DataChannelsReady(s)>>
       /\ stage[s].pc = "run"
       /\ stage[s].request_id = 3

\* C9: whenever a stage sends RequestError for a request (its executor failed,
\* ERR arrived on data-in, the request was aborted, its seq_len was rejected or
\* its schedule could not be generated), the stage has already written the ERR
\* sentinel to its data-out for that request, as the last message of the request.
C9_ErrBeforeRequestError ==
    [][\A s \in Stages :
          Sends(s, "RequestError")
          => /\ Last(ctlUp'[s]).id = hist[s].request_id
             /\ hist[s].outLog # <<>>
             /\ Last(hist[s].outLog) = ERROR_SENTINEL]_vars

\* A stage has reported an aborted request and one that ERR on data-in ended.
C9_Witness ==
    \E s \in Stages :
       /\ \E i \in 1 .. Len(ctlUp[s]) :
             ctlUp[s][i].type = "RequestError" /\ Contains(ctlUp[s][i].error, "aborted: ")
       /\ \E i \in 1 .. Len(ctlUp[s]) :
             ctlUp[s][i].type = "RequestError" /\ ctlUp[s][i].error = UpstreamText
       /\ data[s + 1] # <<>>
       /\ Last(data[s + 1]) = ERROR_SENTINEL

\* C10: when a stage sends RequestDone for a request of m micro-batches it has
\* made m successful forward calls for it, for micro-batches 0 .. m-1 in this
\* order, and what it has written to data-out for the request is, per call, the
\* call's output tensors followed by END.
C10_DoneAfterAllOutputs ==
    [][\A s \in Stages :
          Sends(s, "RequestDone")
          => /\ Last(ctlUp'[s]).id = hist[s].request_id
             /\ Last(ctlUp'[s]).id = stage[s].request_id
             /\ Len(hist[s].fwd) = stage[s].num_micro_batches
             /\ \A i \in 1 .. Len(hist[s].fwd) :
                   hist[s].fwd[i].ok /\ hist[s].fwd[i].micro_batch = i - 1
             /\ hist[s].outLog = Written(hist[s].fwd)]_vars

\* A stage has reported RequestDone for a request of two micro-batches, one of
\* them carrying a tensor.
C10_Witness ==
    \E s \in Stages :
       /\ \E i \in 1 .. Len(ctlUp[s]) :
             ctlUp[s][i].type = "RequestDone" /\ ctlUp[s][i].id = hist[s].request_id
       /\ stage[s].pc = "loop"
       /\ Len(hist[s].fwd) = 2
       /\ Len(hist[s].outLog) = 3

\* ------------------------------------------------------------- properties of the scheduler
Generated == schedule.pc # "none"

OpNames(step_ops) == [i \in 1 .. Len(step_ops) |-> step_ops[i].op]

\* The op names of an active step of stage s of p.
ActiveNames(p, s) ==
    (IF s = 0 THEN <<>> ELSE <<"RecvActivation">>)
    \o <<"Forward">>
    \o (IF s = p - 1 THEN <<>> ELSE <<"SendActivation">>)

\* C25: for p >= 1 and m >= 1, generate(p, m) has total_steps = m + p - 1;
\* every stage 0..p-1 has exactly total_steps steps; at step t stage s has the
\* ops Recv (not for stage 0), Forward, Send (not for stage p-1), all of
\* micro-batch t - s, exactly when s <= t < s + m, and the single op Idle
\* otherwise.
C25_ScheduleShape ==
    (Generated /\ schedule.num_stages >= 1 /\ schedule.num_micro_batches >= 1) =>
        LET p == schedule.num_stages
            m == schedule.num_micro_batches
            r == schedule.result
        IN /\ r.err = "none"
           /\ r.total_steps = m + p - 1
           /\ DOMAIN r.stage_schedules = 0 .. (p - 1)
           /\ \A s \in 0 .. (p - 1) :
                 /\ Len(r.stage_schedules[s]) = r.total_steps
                 /\ \A t \in 0 .. (r.total_steps - 1) :
                       LET step_ops == r.stage_schedules[s][t + 1]
                       IN IF s <= t /\ t < s + m
                          THEN /\ OpNames(step_ops) = ActiveNames(p, s)
                               /\ \A i \in 1 .. Len(step_ops) : step_ops[i].micro_batch = t - s
                          ELSE OpNames(step_ops) = <<"Idle">>

\* generate(3, 2) returned: its middle stage has a step of three ops and idle
\* steps on both sides.
C25_Witness ==
    /\ schedule.pc = "generated"
    /\ schedule.num_stages = 3
    /\ schedule.num_micro_batches = 2
    /\ Len(schedule.result.stage_schedules[1][2]) = 3
    /\ OpNames(schedule.result.stage_schedules[1][1]) = <<"Idle">>
    /\ OpNames(schedule.result.stage_schedules[1][4]) = <<"Idle">>

\* C26: for p >= 1 and m >= 1, the Forward micro-batches a stage meets over
\* its steps are strictly increasing, and once all its steps are visited every
\* micro-batch 0..m-1 has been forwarded exactly once and nothing else.
C26_ForwardsOnceInOrder ==
    (schedule.pc \in {"walk", "walked"}) =>
        LET f == schedule.forwards
            m == schedule.num_micro_batches
        IN /\ \A i \in 1 .. (Len(f) - 1) : f[i] < f[i + 1]
           /\ (schedule.pc = "walked") =>
                 /\ \A mb \in 0 .. (m - 1) : Cardinality({i \in 1 .. Len(f) : f[i] = mb}) = 1
                 /\ \A i \in 1 .. Len(f) : f[i] \in 0 .. (m - 1)

\* The last of 3 stages has been walked to the end of a schedule of 3 micro-batches.
C26_Witness ==
    /\ schedule.pc = "walked"
    /\ schedule.num_stages = 3
    /\ schedule.stage_idx = 2
    /\ schedule.num_micro_batches = 3
    /\ schedule.step = 5
    /\ Len(schedule.forwards) = 3

\* C27: generate returns ZeroStages when num_stages = 0, ZeroMicroBatches when
\* num_stages > 0 and num_micro_batches = 0, and a schedule in every other case.
C27_ZeroErrors ==
    Generated =>
        schedule.result.err =
            CASE schedule.num_stages = 0 -> "ZeroStages"
              [] schedule.num_stages > 0 /\ schedule.num_micro_batches = 0 -> "ZeroMicroBatches"
              [] OTHER -> "none"

\* generate(0, 0) returned: both arguments are zero and ZeroStages wins.
C27_Witness ==
    /\ Generated
    /\ schedule.num_stages = 0
    /\ schedule.num_micro_batches = 0
    /\ schedule.result.err = "ZeroStages"

\* ------------------------------------------------------------- properties of the manifest
\* The conditions of a well-formed manifest, each on its own.
NonEmpty == manifest.stages # <<>>

IndicesArePositions == \A i \in DOMAIN manifest.stages : manifest.stages[i].stage_idx = i - 1

RangesValid ==
    \A i \in DOMAIN manifest.stages : manifest.stages[i].layer_start < manifest.stages[i].layer_end

StartsAtZero == NonEmpty => manifest.stages[1].layer_start = 0

Contiguous ==
    \A i \in DOMAIN manifest.stages :
        (i + 1) \in DOMAIN manifest.stages =>
            manifest.stages[i].layer_end = manifest.stages[i + 1].layer_start

CoversAll == NonEmpty => manifest.stages[Len(manifest.stages)].layer_end = manifest.total_layers

\* C28: validate succeeds if and only if the stage list is non-empty, every
\* stage_idx equals its position, every stage has layer_start < layer_end,
\* stage 0 starts at layer 0, every layer_end equals the next layer_start and
\* the last layer_end equals total_layers.
C28_ValidateIff ==
    (manifest.result # "none") =>
        ((manifest.result = "Ok") <=>
            (NonEmpty /\ IndicesArePositions /\ RangesValid /\ StartsAtZero /\ Contiguous
             /\ CoversAll))

\* validate has refused a manifest of two stages whose only flaw is that it
\* starts at layer 1.
C28_Witness ==
    /\ manifest.result = "LayerStartNotZero"
    /\ Len(manifest.stages) = 2
    /\ manifest.stages[1].layer_start = 1
    /\ IndicesArePositions /\ RangesValid /\ Contiguous /\ CoversAll

\* ------------------------------------------------------------- properties of the relay
IsPrefix(a, b) == Len(a) <= Len(b) /\ a = SubSeq(b, 1, Len(a))

\* What the reader of direction d observes is the start of what was written;
\* while the relay runs nothing written is lost or out of place on its way;
\* once the copy has returned at EOF the reader has observed all of it.
InOrder(d) ==
    /\ IsPrefix(relay[d].dst, relay[d].written)
    /\ ~relay.aborted => relay[d].dst \o relay[d].buf \o relay[d].src = relay[d].written
    /\ relay[d].done => relay[d].dst = relay[d].written

\* C29: in each direction of a relay the bytes written on one side are
\* observed on the other side as the same bytes in the same order up to EOF,
\* and a step of one direction leaves the other direction as it is.
C29_RelayInOrder ==
    /\ [](\A d \in Directions : InOrder(d))
    /\ [][relay'.u2d = relay.u2d \/ relay'.d2u = relay.d2u]_vars

\* Three bytes went downstream and their copy returned at EOF, while the
\* other direction has delivered a different stream in part and is still open.
C29_Witness ==
    /\ relay.u2d.done
    /\ relay.u2d.dst = <<0, 1, 1>>
    /\ relay.d2u.written = <<1, 0>>
    /\ relay.d2u.dst = <<1>>
    /\ ~relay.d2u.eof
    /\ ~relay.aborted

\* ------------------------------------------------------------- properties of connect_tcp_retry
\* C30: with max_retries = r, connect_tcp_retry makes at most r + 1 attempts;
\* it returns the stream of the first attempt that succeeds, so an attempt made
\* while a listener is bound ends the call with Ok; and if all r + 1 attempts
\* fail it returns the Io error, which reports exactly r + 1 attempts.
C30_RetryAttempts ==
    /\ [](/\ tcp.connects <= tcp.max_retries + 1
          /\ tcp.pc = "ok" => tcp.connects = tcp.failed + 1
          /\ tcp.pc # "ok" => tcp.connects = tcp.failed
          /\ tcp.pc = "err" <=> (tcp.pc # "none" /\ tcp.failed = tcp.max_retries + 1)
          /\ tcp.pc = "err" => tcp.reported = tcp.max_retries + 1)
    /\ [][(tcp.listening /\ tcp'.connects # tcp.connects) => tcp'.pc = "ok"]_vars

\* A policy of two retries is used up: the error reports three attempts.
C30_Witness ==
    /\ tcp.pc = "err"
    /\ tcp.max_retries = 2
    /\ tcp.connects = 3
    /\ tcp.reported = 3

\* ------------------------------------------------------------- properties of health_check and of request ids
\* The step is the return of a health_check call with Ok.
HealthOk ==
    /\ Len(log') = Len(log) + 1
    /\ Last(log').call = "health_check"
    /\ Last(log').kind = "Ok"

\* A Ping that stage s has not taken off its control channel.
PingPending(s) == \E k \in 1 .. Len(ctlDown[s]) : ctlDown[s][k].type = "Ping"

\* C31: health_check sends Ping with one seq, used by no earlier health_check,
\* to every stage; it returns Ok only at a Pong of that seq, when every stage has
\* taken the Ping of this call and answered it; a Pong of another seq makes it
\* return an error.
C31_HealthCheckPingPong ==
    [][/\ (orch.pc = "idle" /\ orch'.pc = "hc_send") =>
            \A i \in 1 .. Len(log) :
                log[i].call = "health_check" => log[i].request_id # orch'.request_id
       /\ (orch.pc = "hc_send" /\ orch' # orch) =>
            /\ ctlDown'[orch.idx] = Append(ctlDown[orch.idx], Ping(orch.request_id))
            /\ orch'.request_id = orch.request_id
       /\ HealthOk =>
            /\ orch.pc = "hc_recv"
            /\ Head(ctlUp[orch.idx]) = Pong(orch.request_id)
            /\ \A s \in Stages : ~PingPending(s)'
       /\ (/\ orch.pc = "hc_recv" /\ orch' # orch
           /\ ctlUp[orch.idx] # <<>>
           /\ Head(ctlUp[orch.idx]).type = "Pong"
           /\ Head(ctlUp[orch.idx]).id # orch.request_id) =>
            /\ Len(log') = Len(log) + 1
            /\ Last(log').kind \notin {"Ok"}]_vars

\* C32: the request ids minted by the infer calls of one orchestrator are
\* pairwise distinct.
C32_RequestIdsDistinct ==
    \A i, j \in 1 .. Len(log) :
        (i < j /\ log[i].call = "infer" /\ log[j].call = "infer")
        => log[i].request_id # log[j].request_id

\* ------------------------------------------------------------- properties of process_request
\* The events ev from position i on are rounds of: reads of tensors, the read
\* of one END, one forward, writes of tensors, the write of one END; ph tells
\* where in a round position i is.  The number of whole rounds, -1 if ev is
\* anything else.
RECURSIVE Rounds(_, _, _, _)
Rounds(ev, i, ph, n) ==
    IF i > Len(ev) THEN (IF ph = "fresh" THEN n ELSE -1)
    ELSE IF ph \in {"fresh", "reading"} /\ ev[i] = <<"read", "T">> THEN Rounds(ev, i + 1, "reading", n)
    ELSE IF ph \in {"fresh", "reading"} /\ ev[i] = <<"read", "END">> THEN Rounds(ev, i + 1, "read", n)
    ELSE IF ph = "read" /\ ev[i] = <<"forward", "">> THEN Rounds(ev, i + 1, "writing", n)
    ELSE IF ph = "writing" /\ ev[i] = <<"write", "T">> THEN Rounds(ev, i + 1, "writing", n)
    ELSE IF ph = "writing" /\ ev[i] = <<"write", "END">> THEN Rounds(ev, i + 1, "fresh", n + 1)
    ELSE -1

\* C33: when a stage is to report RequestDone for a request of m
\* micro-batches, it has called forward exactly m times, for micro-batch 0,
\* 1, ..., m-1 in this order and with the request's id, each call after the
\* read of exactly one END-terminated tensor list and before the write of its
\* outputs and exactly one END.
C33_ForwardPerMicroBatch ==
    \A s \in Stages :
        stage[s].pc = "report_done" =>
            /\ Rounds(hist[s].ev, 1, "fresh", 0) = stage[s].num_micro_batches
            /\ Len(hist[s].fwd) = stage[s].num_micro_batches
            /\ \A i \in 1 .. Len(hist[s].fwd) :
                  /\ hist[s].fwd[i].micro_batch = i - 1
                  /\ hist[s].fwd[i].request_id = stage[s].request_id
                  /\ hist[s].fwd[i].ok

\* A request of two micro-batches, the first of one tensor, is to be reported done.
C33_Witness ==
    \E s \in Stages :
        /\ stage[s].pc = "report_done"
        /\ stage[s].num_micro_batches = 2
        /\ Len(hist[s].fwd) = 2
        /\ hist[s].ev = <<<<"read", "T">>, <<"read", "END">>, <<"forward", "">>,
                          <<"write", "T">>, <<"write", "END">>,
                          <<"read", "END">>, <<"forward", "">>, <<"write", "END">>>>

\* ------------------------------------------------------------- properties of infer's replies
\* The step is the return of an infer call.
InferReturns(kind) ==
    /\ Len(log') = Len(log) + 1
    /\ Last(log').call = "infer"
    /\ Last(log').kind = kind

\* The orchestrator takes the control message at the head of the channel of
\* the stage it collects from.
CollectsFrom(msg) ==
    /\ orch.pc = "collect_ok"
    /\ orch' # orch
    /\ ctlUp[orch.idx] # <<>>
    /\ Head(ctlUp[orch.idx]) = msg
    /\ ctlUp'[orch.idx] = Tail(ctlUp[orch.idx])

\* Once all m output micro-batches are read, the stages' control messages
\* are read in index order: the collection starts at stage 0 with m outputs,
\* moves on by one stage at this request's RequestDone only, returns
\* RequestFailed at this request's RequestError and Protocol at anything else.
CollectInOrder ==
    /\ (orch.pc # "collect_ok" /\ orch'.pc = "collect_ok") =>
          /\ orch'.idx = 0
          /\ Len(orch'.outputs) = orch.num_micro_batches
    /\ (orch.pc = "collect_ok" /\ orch'.pc = "collect_ok" /\ orch' # orch) =>
          /\ orch'.idx = orch.idx + 1
          /\ orch'.request_id = orch.request_id
          /\ CollectsFrom(RequestDone(orch.request_id))
    /\ \A msg \in {Head(ctlUp[s]) : s \in {x \in Stages : ctlUp[x] # <<>>}} :
          CollectsFrom(msg) =>
             IF msg = RequestDone(orch.request_id)
             THEN orch'.pc = "collect_ok" \/ InferReturns("Ok")
             ELSE IF msg.type = "RequestError" /\ msg.id = orch.request_id
             THEN InferReturns("RequestFailed")
             ELSE InferReturns("Protocol")

\* C34: infer returns a successful result only if, after reading all m output
\* micro-batches, the next control message of every stage was RequestDone of
\* this call's request id; a RequestError of this id yields RequestFailed, a
\* RequestDone or RequestError of another id, or any other message, Protocol.
C34_OkNeedsEveryDone ==
    [][/\ CollectInOrder
       /\ InferReturns("Ok") =>
            /\ orch.idx = num_stages - 1
            /\ CollectsFrom(RequestDone(orch.request_id))]_vars

\* C34 for calls with at least one micro-batch: as above; a call without
\* micro-batches returns an empty successful result and reads no message.
C34_OkNeedsEveryDoneUnlessEmpty ==
    [][/\ CollectInOrder
       /\ (InferReturns("Ok") /\ Last(log').input # <<>>) =>
            /\ orch.idx = num_stages - 1
            /\ CollectsFrom(RequestDone(orch.request_id))]_vars

\* On a pipeline of two stages a call of two micro-batches has returned Ok
\* with two outputs, after both stages' RequestDone were read.
C34_Witness ==
    /\ num_stages = 2
    /\ Len(log) = 1
    /\ log[1].call = "infer" /\ log[1].kind = "Ok" /\ Len(log[1].outputs) = 2
    /\ \A s \in Stages : ctlUp[s] = <<>> /\ hist[s].request_id = log[1].request_id

\* ------------------------------------------------------------- properties of a failed request
\* Stage s reports RequestError in this step.
ReportsError(s) ==
    /\ Len(ctlUp'[s]) = Len(ctlUp[s]) + 1
    /\ Last(ctlUp'[s]).type = "RequestError"

\* The last thing stage s wrote to data-out is the error sentinel: the request
\* it was started on last has failed.
FailedLast(s) == hist[s].outLog # <<>> /\ Last(hist[s].outLog) = ERROR_SENTINEL

\* C35: a failed request never terminates a stage: the step that reports
\* RequestError leaves the stage in its process loop; a Shutdown it takes
\* there is answered with ShuttingDown and its run returns Ok; and a shutdown
\* called right after an infer that returned RequestFailed returns Ok.
C35_FailedRequestKeepsStage ==
    /\ [][\A s \in Stages :
            /\ ReportsError(s) => stage'[s].pc = "loop"
            /\ (FailedLast(s) /\ stage[s].pc = "loop" /\ Takes(s, "Shutdown")) =>
                  /\ ctlUp'[s] = Append(ctlUp[s], ShuttingDown(s))
                  /\ stage'[s].pc = "exited"]_vars
    /\ [](\A i \in 2 .. Len(log) :
            (/\ log[i].call = "shutdown"
             /\ log[i - 1].call = "infer"
             /\ log[i - 1].kind = "RequestFailed") => log[i].kind = "Ok")

\* On a pipeline of two stages an infer returned RequestFailed, both stages
\* had failed the request, and the shutdown after it returned Ok with the run
\* of both stages returned.
C35_Witness ==
    /\ num_stages = 2
    /\ Len(log) = 3
    /\ log[2].call = "infer" /\ log[2].kind = "RequestFailed"
    /\ log[3].call = "shutdown" /\ log[3].kind = "Ok"
    /\ \A s \in Stages : FailedLast(s) /\ stage[s].pc = "exited"

\* ------------------------------------------------------------- properties of infer on bounded links
\* C36: with executors that never fail and data links of bounded capacity, an
\* infer of m >= 1 micro-batches that has begun eventually returns Ok: pushing
\* all the input before reading any output never deadlocks against stages
\* blocked on writing their outputs.
C36_InferReturnsOnBoundedLinks ==
    (orch.pc \in InferPcs) ~> (orch.pc = "idle" /\ log # <<>> /\ Last(log).kind = "Ok")

\* ------------------------------------------------------------- properties of the data streams
\* C37: whenever infer returns RequestFailed, no message of the failed
\* request (input tensor, END or ERR) is left unread on a data channel:
\* data-in, every link between stages and data-out are empty.
C37_FailedRequestLeavesNoData ==
    [][InferReturns("RequestFailed") => \A i \in 0 .. num_stages : data'[i] = <<>>]_vars

\* ------------------------------------------------------------- properties of AbortRequest by id
\* C38: a stage cancels the request in flight on an AbortRequest only if the
\* AbortRequest names that request; an AbortRequest that names another
\* request is taken and the request in flight runs on as it was.
C38_AbortOnlyOwnRequest ==
    [][\A s \in Stages :
          (/\ Takes(s, "AbortRequest")
           /\ stage[s].pc = "run"
           /\ Head(ctlDown[s]).id # stage[s].request_id) => stage'[s] = stage[s]]_vars

\* ------------------------------------------------------------- properties of StartRequest
\* C39: no StartRequest a stage receives in its data phase is lost: the step
\* that takes it from the control channel makes it the stage's request, to be
\* processed or rejected and answered with a RequestDone or RequestError of
\* its request_id, also when another request is in flight at that step.
C39_StartRequestNotLost ==
    [][\A s \in Stages :
          (Takes(s, "StartRequest") /\ stage[s].pc \in {"loop", "run"}) =>
             /\ stage'[s].request_id = Head(ctlDown[s]).id
             /\ stage'[s].pc \in {"run", "reject_err"}]_vars

\* ------------------------------------------------------------- properties of a request in flight
\* Stage s has sent the terminal reply of request id.
Answered(s, id) ==
    \E i \in 1 .. Len(ctlUp[s]) :
       ctlUp[s][i].type \in {"RequestDone", "RequestError"} /\ ctlUp[s][i].id = id

\* Request stage[s].request_id is in flight in stage s: its StartRequest was
\* the last one the stage took, and its reply has not been sent.
InFlight(s) ==
    /\ stage[s].pc = "run"
    /\ hist[s].request_id = stage[s].request_id
    /\ ~Answered(s, stage[s].request_id)

\* The step is a read from the data-in of stage s: the stage steps and a
\* message is taken from the channel that run_data_phase accepted (the frames
\* of its handshake are read from the transport before the channel exists).
ReadsDataIn(s) ==
    /\ \E i \in 1 .. Len(hist[s].setup) : hist[s].setup[i] = "data_in"
    /\ data[s] # <<>>
    /\ data'[s] = Tail(data[s])
    /\ stage'[s] # stage[s] \/ hist'[s] # hist[s]

\* The step is a call of executor.forward by stage s.
CallsForward(s) == Len(hist'[s].fwd) = Len(hist[s].fwd) + 1

\* C40: a stage calls executor.forward and reads from its data-in only while
\* a request is in flight: after it took that request's StartRequest, whose
\* seq_len was within max_seq_len, and before it sent that request's
\* RequestDone or RequestError.  At most one request is in flight in a stage:
\* a StartRequest is taken up only when the request before it was answered.
C40_WorkOnlyInFlight ==
    [][\A s \in Stages :
          /\ (ReadsDataIn(s) \/ CallsForward(s)) => InFlight(s)
          /\ CallsForward(s) => Last(hist'[s].fwd).request_id = stage[s].request_id
          /\ (Takes(s, "StartRequest") /\ Head(ctlDown[s]).seq_len > max_seq_len)
                => ~(stage'[s].pc = "run" /\ stage'[s].request_id = Head(ctlDown[s]).id)
          /\ (Takes(s, "StartRequest") /\ stage'[s].request_id # stage[s].request_id) =>
                /\ stage[s].pc = "loop"
                /\ hist[s].request_id # 0 => Answered(s, hist[s].request_id)]_vars

\* A stage answered one request and, on the next one, has read an END from
\* its data-in and called forward, the reply of that request not yet sent.
C40_Witness ==
    \E s \in Stages :
       /\ InFlight(s)
       /\ stage[s].request_id = 2
       /\ Answered(s, 1)
       /\ Len(hist[s].fwd) = 1
       /\ hist[s].ev = <<<<"read", "END">>, <<"forward", "">>>>

====
